---- MODULE Spec2Model ----
(***************************************************************************)
(* Bulk catalog ingestion of Quickdeck.                                    *)
(*                                                                         *)
(*  - src/app.py: process_bulk_upload_file and its helpers, writing the    *)
(*    MongoDB collection products_collection (create-only per SKU).        *)
(*  - src/update_db.py: run_quickdeck_upsert, writing the same collection  *)
(*    with update_one(..., upsert=True).                                   *)
(*  - src/catalog_portal/bulk_upload/bulk_upload.py: BulkUploader, writing *)
(*    PostgreSQL tables inside one psycopg2 connection context.            *)
(*                                                                         *)
(* Text is modelled as a sequence of one-character strings, so that        *)
(* trimming, splitting, lower-casing and matching are computed.            *)
(***************************************************************************)
EXTENDS Integers, Sequences, FiniteSets, TLC

(***************************************************************************)
(* Text primitives (Python str methods used by the code).                  *)
(***************************************************************************)
\* A list comprehension [e(i) for i in 1..n], held as a tuple.
ListOf(f) ==
  f \o <<>>

\* A mapping given by its entries, held as an explicit function.
MapOf(f) ==
  f @@ <<>>

UpperChars ==
  <<"A","B","C","D","E","F","G","H","I","J","K","L","M","N","O","P","Q","R","S","T","U","V","W","X","Y","Z">>

LowerChars ==
  <<"a","b","c","d","e","f","g","h","i","j","k","l","m","n","o","p","q","r","s","t","u","v","w","x","y","z">>

DigitChars ==
  <<"0","1","2","3","4","5","6","7","8","9">>

\* Characters str.strip(), str.split() and the regex class \s treat as blank.
IsSpace(c) ==
  c \in {" ", "\t", "\n", "\r"}

IsDigit(c) ==
  \E i \in 1..10 : DigitChars[i] = c

DigitVal(c) ==
  (CHOOSE i \in 1..10 : DigitChars[i] = c) - 1

\* str.lower() on one character.
LowerChar(c) ==
  IF \E i \in 1..26 : UpperChars[i] = c
  THEN LowerChars[CHOOSE i \in 1..26 : UpperChars[i] = c]
  ELSE c

\* str.lower()
Lower(s) ==
  ListOf([i \in 1..Len(s) |-> LowerChar(s[i])])

\* str.strip()
Strip(s) ==
  LET keep == {i \in 1..Len(s) : ~IsSpace(s[i])}
  IN IF keep = {} THEN <<>>
     ELSE SubSeq(s, CHOOSE i \in keep : \A j \in keep : i <= j,
                    CHOOSE i \in keep : \A j \in keep : i >= j)

\* str.strip(q) for a one-character q (one or more copies at either end).
StripChar(s, q) ==
  LET keep == {i \in 1..Len(s) : s[i] # q}
  IN IF keep = {} THEN <<>>
     ELSE SubSeq(s, CHOOSE i \in keep : \A j \in keep : i <= j,
                    CHOOSE i \in keep : \A j \in keep : i >= j)

\* str.replace(a, b) for one-character a and b.
ReplaceChar(s, a, b) ==
  ListOf([i \in 1..Len(s) |-> IF s[i] = a THEN b ELSE s[i]])

\* str.replace(a, '') for a one-character a.
RemoveChar(s, a) ==
  SelectSeq(s, LAMBDA c : c # a)

\* str.startswith(p)
StartsWith(s, p) ==
  Len(s) >= Len(p) /\ SubSeq(s, 1, Len(p)) = p

\* str.endswith(p)
EndsWith(s, p) ==
  Len(s) >= Len(p) /\ SubSeq(s, Len(s) - Len(p) + 1, Len(s)) = p

\* p in s
Contains(s, p) ==
  \E i \in 1..(Len(s) - Len(p) + 1) : SubSeq(s, i, i + Len(p) - 1) = p

\* The maximal runs of characters of s that are not in seps, in order.
RECURSIVE Runs(_, _)
Runs(s, seps) ==
  IF s = <<>> THEN <<>>
  ELSE IF s[1] \in seps THEN Runs(Tail(s), seps)
  ELSE LET stop == {i \in 1..Len(s) : s[i] \in seps}
           n == IF stop = {} THEN Len(s)
                ELSE (CHOOSE i \in stop : \A j \in stop : i <= j) - 1
       IN <<SubSeq(s, 1, n)>> \o Runs(SubSeq(s, n + 1, Len(s)), seps)

\* sep.join(parts) for a text sep.
RECURSIVE Join(_, _)
Join(parts, sep) ==
  IF parts = <<>> THEN <<>>
  ELSE IF Len(parts) = 1 THEN parts[1]
  ELSE parts[1] \o sep \o Join(Tail(parts), sep)

\* The value of a text of decimal digits.
RECURSIVE DigitsValue(_)
DigitsValue(s) ==
  IF s = <<>> THEN 0
  ELSE 10 * DigitsValue(SubSeq(s, 1, Len(s) - 1)) + DigitVal(s[Len(s)])

AllDigits(s) ==
  s # <<>> /\ \A i \in 1..Len(s) : IsDigit(s[i])

(***************************************************************************)
(* src/app.py: constants and row helpers.                                  *)
(***************************************************************************)
BULK_REQUIRED_ATTRIBUTES ==
  << <<"S","K","U">>,
     <<"P","r","o","d","u","c","t"," ","N","a","m","e">>,
     <<"D","e","s","c","r","i","p","t","i","o","n">>,
     <<"O","r","n","a","m","e","n","t","a","t","i","o","n">>,
     <<"O","c","c","a","s","i","o","n">>,
     <<"G","e","n","e","r","i","c"," ","N","a","m","e">>,
     <<"S","i","z","e">>,
     <<"F","a","s","t","e","n","i","n","g"," ","&"," ","B","a","c","k"," ","D","e","t","a","i","l">>,
     <<"H","e","e","l"," ","H","e","i","g","h","t">>,
     <<"H","e","e","l"," ","T","y","p","e">>,
     <<"H","e","e","l"," ","H","e","i","g","h","t"," ","(","i","n",")">>,
     <<"I","n","s","o","l","e">>,
     <<"M","a","t","e","r","i","a","l">>,
     <<"S","o","l","e"," ","M","a","t","e","r","i","a","l">>,
     <<"P","a","t","t","e","r","n">>,
     <<"T","y","p","e">>,
     <<"N","e","t"," ","Q","u","a","n","t","i","t","y">>,
     <<"M","R","P">>,
     <<"S","e","l","l","i","n","g"," ","P","r","i","c","e">>,
     <<"W","r","o","n","g","/","D","e","f","e","c","t","i","v","e"," ","R","e","t","u","r","n","s"," ","P","r","i","c","e">>,
     <<"L","e","n","g","t","h"," ","S","i","z","e">>,
     <<"W","i","d","t","h"," ","S","i","z","e">>,
     <<"N","e","t"," ","W","e","i","g","h","t">>,
     <<"H","S","N"," ","C","o","d","e">>,
     <<"G","S","T">>,
     <<"C","o","l","o","r">>,
     <<"A","n","k","l","e"," ","H","e","i","g","h","t">>,
     <<"T","o","e"," ","T","y","p","e">>,
     <<"C","O","U","N","T","R","Y"," ","O","F"," ","O","R","I","G","I","N">>,
     <<"M","a","n","u","f","a","c","t","u","r","e","r"," ","N","a","m","e">>,
     <<"M","a","n","u","f","a","c","t","u","r","e","r"," ","A","d","d","r","e","s","s">> >>

BULK_ALLOWED_EXTENSIONS ==
  {<<"c","s","v">>, <<"x","l","s","x">>}

normalize_bulk_header(value) ==
  Join(Runs(Lower(Strip(ReplaceChar(ReplaceChar(value, "\n", " "), "\r", " "))),
            {" ", "\t", "\n", "\r"}),
       <<" ">>)

\* float(cleaned) for the texts the model's cells hold: decimal digits, with
\* thousands separators removed first; any other text takes the default.
parse_number(value, default) ==
  LET cleaned == RemoveChar(Strip(value), ",")
  IN IF cleaned = <<>> THEN default
     ELSE IF AllDigits(cleaned) THEN DigitsValue(cleaned)
     ELSE default

parse_int(value, default) ==
  parse_number(value, default)

split_multi_value(raw) ==
  LET text == Strip(raw)
      parts == Runs(text, {",", "/", "|", ";", "\n"})
      stripped == ListOf([i \in 1..Len(parts) |-> Strip(parts[i])])
  IN SelectSeq(stripped, LAMBDA v : v # <<>>)

\* re.fullmatch(r'\d+\.0+', val)
IsNumericLikeSize(val) ==
  \E d \in 2..(Len(val) - 1) :
    /\ val[d] = "."
    /\ \A i \in 1..(d - 1) : IsDigit(val[i])
    /\ \A i \in (d + 1)..Len(val) : val[i] = "0"

normalize_size_value(value) ==
  LET val == Strip(value)
  IN IF val = <<>> THEN <<>>
     ELSE IF IsNumericLikeSize(val)
          THEN SubSeq(val, 1, (CHOOSE d \in 1..Len(val) : val[d] = ".") - 1)
     ELSE val

\* Text after the last occurrence of the one-character sep (all of s if none):
\* s.rsplit(sep, 1)[-1] and s.split(sep)[-1].
AfterLast(s, sep) ==
  LET at == {i \in 1..Len(s) : s[i] = sep}
  IN IF at = {} THEN s
     ELSE SubSeq(s, (CHOOSE i \in at : \A j \in at : i >= j) + 1, Len(s))

ImageUrlPrefixes ==
  {<<"h","t","t","p",":","/","/">>, <<"h","t","t","p","s",":","/","/">>, <<"d","a","t","a",":","i","m","a","g","e">>, <<"b","l","o","b",":">>}

ImageExtensions ==
  {<<"j","p","g">>, <<"j","p","e","g">>, <<"p","n","g">>, <<"g","i","f">>, <<"w","e","b","p">>, <<"a","v","i","f">>}

\* normalize_image_reference from the point where raw is the stripped and
\* unquoted value with its backslashes replaced.
image_reference(raw) ==
  LET lowered == Lower(raw)
  IN IF raw = <<>> THEN <<>>
     ELSE IF \E p \in ImageUrlPrefixes : StartsWith(lowered, p) THEN raw
     ELSE IF StartsWith(raw, <<"/","s","t","a","t","i","c","/">>) THEN raw
     ELSE IF StartsWith(raw, <<"s","t","a","t","i","c","/">>) THEN <<"/">> \o raw
     ELSE IF StartsWith(raw, <<"i","m","a","g","e","s","/">>) THEN <<"/","s","t","a","t","i","c","/">> \o raw
     ELSE IF StartsWith(raw, <<"/","i","m","a","g","e","s","/">>) THEN <<"/","s","t","a","t","i","c">> \o raw
     ELSE IF \E e \in ImageExtensions : EndsWith(lowered, <<".">> \o e)
          THEN <<"/","s","t","a","t","i","c","/","i","m","a","g","e","s","/","p","r","o","d","u","c","t","s","/">> \o AfterLast(raw, "/")
     ELSE raw

\* The replace of backslashes keeps the length, so "if not raw" is tested on
\* the replaced text.
normalize_image_reference_as_given(value) ==
  ReplaceChar(StripChar(StripChar(Strip(value), "\""), "'"), "\\", "/")

normalize_image_reference(value) ==
  image_reference(ReplaceChar(StripChar(StripChar(Strip(value), "\""), "'"), "\\", "/"))

RECURSIVE FirstOfEach(_, _)
FirstOfEach(urls, seen) ==
  IF urls = <<>> THEN <<>>
  ELSE IF urls[1] = <<>> \/ urls[1] \in seen THEN FirstOfEach(Tail(urls), seen)
  ELSE <<urls[1]>> \o FirstOfEach(Tail(urls), seen \cup {urls[1]})

\* collect_product_images of a product whose fields image_1..image_8 hold
\* numbered, whose list is images and whose field image is single.
collect_product_images(numbered, images, single) ==
  LET candidates == ListOf([i \in 1..(Len(numbered) + Len(images) + 1) |->
                              IF i <= Len(numbered) THEN normalize_image_reference(numbered[i])
                              ELSE IF i <= Len(numbered) + Len(images)
                              THEN normalize_image_reference(images[i - Len(numbered)])
                              ELSE normalize_image_reference(single)])
      urls == FirstOfEach(candidates, {})
  IN IF urls = <<>> THEN <<<<"/","s","t","a","t","i","c","/","i","m","a","g","e","s","/","d","e","f","a","u","l","t","-","p","r","o","d","u","c","t",".","j","p","g">>>> ELSE urls

RECURSIVE DictKeys(_, _)
DictKeys(keys, seen) ==
  IF keys = <<>> THEN <<>>
  ELSE IF keys[1] \in seen THEN DictKeys(Tail(keys), seen)
  ELSE <<keys[1]>> \o DictKeys(Tail(keys), seen \cup {keys[1]})

\* A Python dict built by inserting pairs[1], pairs[2], ... in turn, as the
\* sequence of its items: a key keeps the place of its first insertion and
\* the value of its last.
DictOf(pairs) ==
  LET keys == DictKeys(ListOf([i \in 1..Len(pairs) |-> pairs[i][1]]), {})
      last(k) == CHOOSE i \in 1..Len(pairs) :
                   pairs[i][1] = k /\ \A j \in 1..Len(pairs) : pairs[j][1] = k => j <= i
  IN ListOf([n \in 1..Len(keys) |-> <<keys[n], pairs[last(keys[n])][2]>>])

\* {normalize_bulk_header(h): h for h in headers if h}
header_index_map(headers) ==
  LET hs == SelectSeq(headers, LAMBDA h : h # <<>>)
  IN DictOf(ListOf([i \in 1..Len(hs) |-> <<normalize_bulk_header(hs[i]), hs[i]>>]))

\* index_map.get(key): the original header, or the absent marker NoHeader.
NoHeader ==
  <<"\n">>

IndexGet(index_map, key) ==
  IF \E n \in 1..Len(index_map) : index_map[n][1] = key
  THEN index_map[CHOOSE n \in 1..Len(index_map) : index_map[n][1] = key][2]
  ELSE NoHeader

\* row.get(col, '') for a row held as a function from header text to cell text.
RowGet(row, col) ==
  IF col \in DOMAIN row THEN row[col] ELSE <<>>

\* The absent marker is no key of a row, so "if idx is None: return ''" is the
\* default of the row lookup.
get_from_row(row, index_map, key) ==
  Strip(RowGet(row, IndexGet(index_map, normalize_bulk_header(key))))

\* The header names extract_variant_sizes never scans for sizes.
NonSizeHeaders ==
  {normalize_bulk_header(<<"L","e","n","g","t","h"," ","S","i","z","e">>), normalize_bulk_header(<<"W","i","d","t","h"," ","S","i","z","e">>),
   normalize_bulk_header(<<"H","e","e","l"," ","H","e","i","g","h","t">>), normalize_bulk_header(<<"H","e","e","l"," ","H","e","i","g","h","t"," ","(","i","n",")">>)}

IsSizeHeader(n) ==
  (Contains(n, <<"s","i","z","e">>) \/ Contains(n, <<"v","a","r","i","a","n","t">>)) /\ n \notin NonSizeHeaders

IsImageHeader(n) ==
  /\ Contains(n, <<"i","m","a","g","e">>) \/ Contains(n, <<"i","m","g">>) \/ Contains(n, <<"p","h","o","t","o">>) \/ Contains(n, <<"p","i","c">>)
  /\ ~Contains(n, <<"t","a","g">>) /\ ~Contains(n, <<"a","l","t">>) /\ ~Contains(n, <<"l","a","b","e","l">>)

IsTagHeader(n) ==
  Contains(n, <<"t","a","g">>) \/ Contains(n, <<"l","a","b","e","l">>) \/ Contains(n, <<"k","e","y","w","o","r","d">>)

\* The three matcher lambdas passed to get_non_empty_by_header_match.
HeaderMatches(matcher, n) ==
  CASE matcher = "size" -> IsSizeHeader(n)
    [] matcher = "image" -> IsImageHeader(n)
    [] matcher = "tag" -> IsTagHeader(n)

\* get_non_empty_by_header_match, returning the values only (all callers drop
\* the two header components).
RECURSIVE NonEmptyValues(_, _, _)
NonEmptyValues(row, index_map, matcher) ==
  IF index_map = <<>> THEN <<>>
  ELSE LET value == Strip(RowGet(row, index_map[1][2]))
           rest == NonEmptyValues(row, Tail(index_map), matcher)
       IN IF HeaderMatches(matcher, index_map[1][1]) /\ value # <<>> THEN <<value>> \o rest
          ELSE rest

\* Length of the longest run of s from position i of digits (cls = "d") or of
\* blanks (cls = "s").
RECURSIVE SpanLen(_, _, _)
SpanLen(s, i, cls) ==
  IF i <= Len(s) /\ (IF cls = "d" THEN IsDigit(s[i]) ELSE IsSpace(s[i]))
  THEN 1 + SpanLen(s, i + 1, cls)
  ELSE 0

\* The position after the blanks that start at position i.
SkipBlanks(s, i) ==
  i + SpanLen(s, i, "s")

\* The last position of the longest [0-9]+(?:\.[0-9]+)? starting at position
\* i, or i - 1 when no digit is there.
NumberEnd(s, i) ==
  LET d1 == SpanLen(s, i, "d")
      f == IF d1 > 0 /\ i + d1 <= Len(s) /\ s[i + d1] = "."
           THEN SpanLen(s, i + d1 + 1, "d") ELSE 0
  IN IF f > 0 THEN i + d1 + f ELSE i + d1 - 1

\* The rest of the pattern, \s*[:=]\s*[0-9]+, behind a capture s[i..capEnd]
\* whose separator has to stand at sepAt.
SizePairBehind(s, i, capEnd, sepAt) ==
  LET d2 == SpanLen(s, SkipBlanks(s, sepAt + 1), "d")
  IN IF capEnd >= i /\ sepAt <= Len(s) /\ s[sepAt] \in {":", "="} /\ d2 > 0
     THEN <<SkipBlanks(s, sepAt + 1) + d2 - 1, SubSeq(s, i, capEnd)>>
     ELSE <<0, <<>>>>

SizePairFrom(s, i, capEnd) ==
  SizePairBehind(s, i, capEnd, SkipBlanks(s, capEnd + 1))

\* One attempt of the pattern ([0-9]+(?:\.[0-9]+)?)\s*[:=]\s*[0-9]+ at position
\* i: <<end of match, captured size>>, or <<0, <<>>>> when it does not match.
\* Every quantifier is followed by a character outside its class, so the greedy
\* match is the only one.
SizePairAt(s, i) ==
  SizePairFrom(s, i, NumberEnd(s, i))

\* re.findall of that pattern: the captured sizes of the leftmost
\* non-overlapping matches, scanning from position i.
RECURSIVE SizePairs(_, _)
SizePairs(s, i) ==
  IF i > Len(s) THEN <<>>
  ELSE LET m == SizePairAt(s, i)
       IN IF m[1] > 0 THEN <<m[2]>> \o SizePairs(s, m[1] + 1)
          ELSE SizePairs(s, i + 1)

\* The per-token normalisation of each collecting loop.
NormToken(norm, token) ==
  CASE norm = "size" -> normalize_size_value(token)
    [] norm = "image" -> normalize_image_reference(Strip(token))
    [] norm = "tag" -> Strip(token)

AddToken_seen_or_not(acc, s) ==
  IF s # <<>> THEN Append(acc, s) ELSE acc

\* if s and s not in seen: seen.add(s); sizes.append(s)
AddToken(acc, s) ==
  IF s # <<>> /\ \A i \in 1..Len(acc) : acc[i] # s THEN Append(acc, s) ELSE acc

\* Appends to acc the tokens not yet in it, in order, each passed through norm
\* and dropped when empty.
RECURSIVE AddUnique(_, _, _)
AddUnique(acc, tokens, norm) ==
  IF tokens = <<>> THEN acc
  ELSE AddUnique(AddToken(acc, NormToken(norm, tokens[1])), Tail(tokens), norm)

\* candidate_tokens = pairs if pairs else split_multi_value(value)
candidate_tokens(pairs, value) ==
  IF pairs # <<>> THEN pairs ELSE split_multi_value(value)

\* The loop over extra_size_cols.
RECURSIVE AddSizeColumns(_, _)
AddSizeColumns(acc, values) ==
  IF values = <<>> THEN acc
  ELSE AddSizeColumns(AddUnique(acc, candidate_tokens(SizePairs(values[1], 1), values[1]),
                                "size"),
                      Tail(values))

\* A fallback that is taken whatever was found before.
size_fallback_always(row, index_map, sizes) ==
  AddUnique(sizes, <<get_from_row(row, index_map, <<"L","e","n","g","t","h"," ","S","i","z","e">>),
                     get_from_row(row, index_map, <<"W","i","d","t","h"," ","S","i","z","e">>)>>,
            "size")

\* The fallback to length/width when no size was found.
size_fallback(row, index_map, sizes) ==
  IF sizes # <<>> THEN sizes
  ELSE AddUnique(sizes, <<get_from_row(row, index_map, <<"L","e","n","g","t","h"," ","S","i","z","e">>),
                          get_from_row(row, index_map, <<"W","i","d","t","h"," ","S","i","z","e">>)>>,
                 "size")

extract_variant_sizes(row, index_map) ==
  size_fallback(row, index_map,
    AddSizeColumns(AddUnique(<<>>, split_multi_value(get_from_row(row, index_map, <<"S","i","z","e">>)),
                             "size"),
                   NonEmptyValues(row, index_map, "size")))

RECURSIVE AddCells(_, _, _)
AddCells(acc, values, norm) ==
  IF values = <<>> THEN acc
  ELSE AddCells(AddUnique(acc, split_multi_value(values[1]), norm), Tail(values), norm)

\* extract_image_data: <<image_urls, tags>>.
extract_image_data(row, index_map) ==
  <<AddCells(<<>>, NonEmptyValues(row, index_map, "image"), "image"),
    AddCells(<<>>, NonEmptyValues(row, index_map, "tag"), "tag")>>

(***************************************************************************)
(* src/app.py: readers, record mapper and process_bulk_upload_file.        *)
(***************************************************************************)
\* The items of a dict as a function from key to value.
AsRow(items) ==
  MapOf([k \in {items[i][1] : i \in 1..Len(items)} |->
           items[CHOOSE i \in 1..Len(items) : items[i][1] = k][2]])

\* One csv.DictReader record, then the key/value stripping of csv_rows_to_dicts.
CsvRowDict(fieldnames, values) ==
  LET read == DictOf(ListOf([i \in 1..Len(fieldnames) |-> <<fieldnames[i], values[i]>>]))
  IN AsRow(DictOf(ListOf([i \in 1..Len(read) |-> <<Strip(read[i][1]), Strip(read[i][2])>>])))

\* csv_rows_to_dicts on a parsed sheet [headers, records]: <<headers, rows>>.
csv_rows_to_dicts(file) ==
  LET all == ListOf([i \in 1..Len(file.records) |-> CsvRowDict(file.headers, file.records[i])])
  IN <<ListOf([i \in 1..Len(file.headers) |-> Strip(file.headers[i])]),
       SelectSeq(all, LAMBDA r : \E k \in DOMAIN r : r[k] # <<>>)>>

(***************************************************************************)
(* xlsx_rows_to_dicts.  A workbook is what zipfile and ElementTree make of *)
(* the upload: zip says whether the bytes are a zip archive, names are its *)
(* members, shared is xl/sharedStrings.xml and sheet xl/worksheets/        *)
(* sheet1.xml, each [well_formed, ...] with the element tree the reader    *)
(* walks: shared.si is the list of <si> elements, each the list of the     *)
(* texts of its <t> elements; sheet.rows is the list of <row> elements,    *)
(* each the list of its <c> elements [r, t, v, is], where r and t are the  *)
(* attributes, v is the <v> child and is the first <t> descendant, both    *)
(* <<>> when absent and <<text>> when present.                             *)
(***************************************************************************)
\* ch.isalpha()
IsAlpha(c) ==
  \E i \in 1..26 : UpperChars[i] = c \/ LowerChars[i] = c

\* ord(ch.upper()) - ord('A') + 1
LetterRank(c) ==
  CHOOSE i \in 1..26 : UpperChars[i] = c \/ LowerChars[i] = c

\* for ch in letters: idx = idx * 26 + (ord(ch) - ord('A') + 1)
RECURSIVE LettersValue(_)
LettersValue(letters) ==
  IF letters = <<>> THEN 0
  ELSE LettersValue(SubSeq(letters, 1, Len(letters) - 1)) * 26 + LetterRank(letters[Len(letters)])

col_ref_to_index(ref) ==
  IF SelectSeq(ref, IsAlpha) = <<>> THEN -1
  ELSE LettersValue(SelectSeq(ref, IsAlpha)) - 1

\* The shared-string table: one text per <si>, its <t> texts joined.
shared_strings(workbook) ==
  IF "xl/sharedStrings.xml" \in workbook.names
  THEN ListOf([i \in 1..Len(workbook.shared.si) |-> Join(workbook.shared.si[i], <<>>)])
  ELSE <<>>

\* A lookup that takes the cell's index as a 1-based position.
shared_string_one_based(table, idx) ==
  IF 0 < idx /\ idx <= Len(table) THEN table[idx] ELSE <<>>

\* shared_strings[idx] if 0 <= idx < len(shared_strings) else ''
shared_string(table, idx) ==
  IF 0 <= idx /\ idx < Len(table) THEN table[idx + 1] ELSE <<>>

cell_value(cell, table) ==
  IF cell.t = "inlineStr" THEN (IF cell.is = <<>> THEN <<>> ELSE cell.is[1])
  ELSE IF cell.v = <<>> THEN <<>>
  ELSE IF cell.t = "s"
       THEN shared_string(table, IF AllDigits(cell.v[1]) THEN DigitsValue(cell.v[1]) ELSE -1)
  ELSE cell.v[1]

\* header_map / row_map: the dict from column index to stripped cell value,
\* as its items.
cell_map(cells, table) ==
  DictOf(SelectSeq(ListOf([j \in 1..Len(cells) |->
                             <<col_ref_to_index(cells[j].r), Strip(cell_value(cells[j], table))>>]),
                   LAMBDA item : item[1] >= 0))

\* map.get(i, '')
CellGet(items, i) ==
  IF \E n \in 1..Len(items) : items[n][1] = i
  THEN items[CHOOSE n \in 1..Len(items) : items[n][1] = i][2]
  ELSE <<>>

\* max(header_map.keys()) if header_map else -1
MaxIndex(items) ==
  IF items = <<>> THEN -1
  ELSE CHOOSE m \in {items[n][1] : n \in 1..Len(items)} :
         \A n \in 1..Len(items) : items[n][1] <= m

\* headers = [header_map.get(i, '').strip() for i in range(max_header_idx + 1)]
header_list(header_map) ==
  ListOf([i \in 1..(MaxIndex(header_map) + 1) |-> Strip(CellGet(header_map, i - 1))])

\* {headers[i]: row_map.get(i, '') for i in range(len(headers))}
xlsx_row_dict(headers, row_map) ==
  AsRow(DictOf(ListOf([i \in 1..Len(headers) |-> <<headers[i], CellGet(row_map, i - 1)>>])))

\* The data rows: rows without a non-empty cell are passed over.
data_rows(headers, row_maps) ==
  LET kept == SelectSeq(row_maps, LAMBDA m : \E n \in 1..Len(m) : m[n][2] # <<>>)
  IN ListOf([i \in 1..Len(kept) |-> xlsx_row_dict(headers, kept[i])])

row_maps(rows, table) ==
  ListOf([i \in 1..Len(rows) |-> cell_map(rows[i], table)])

\* The exception xlsx_rows_to_dicts raises on the workbook, "none" otherwise.
xlsx_raises(workbook) ==
  IF ~workbook.zip THEN "BadZipFile"
  ELSE IF "xl/sharedStrings.xml" \in workbook.names /\ ~workbook.shared.well_formed
       THEN "ParseError"
  ELSE IF "xl/worksheets/sheet1.xml" \in workbook.names /\ ~workbook.sheet.well_formed
       THEN "ParseError"
  ELSE "none"

\* xlsx_rows_to_dicts on a workbook it raises nothing on: <<headers, rows>>.
xlsx_rows_to_dicts(workbook) ==
  IF "xl/worksheets/sheet1.xml" \notin workbook.names \/ workbook.sheet.rows = <<>>
  THEN <<<<>>, <<>>>>
  ELSE <<header_list(cell_map(workbook.sheet.rows[1], shared_strings(workbook))),
         data_rows(header_list(cell_map(workbook.sheet.rows[1], shared_strings(workbook))),
                   row_maps(Tail(workbook.sheet.rows), shared_strings(workbook)))>>

\* f'image_{idx}' for idx = 1..8.
ImageKeys ==
  <<"image_1", "image_2", "image_3", "image_4", "image_5", "image_6", "image_7", "image_8">>

\* The entries written by: for idx, url in enumerate(image_urls[:8], start=1).
ImageSlots(image_urls) ==
  MapOf([k \in {ImageKeys[idx] : idx \in 1..(IF Len(image_urls) < 8 THEN Len(image_urls) ELSE 8)} |->
           image_urls[CHOOSE idx \in 1..8 : ImageKeys[idx] = k]])

\* A document field that is attached only when its value is non-empty.
Optional(field, value) ==
  IF value # <<>> THEN field :> value ELSE <<>>

\* get_from_row(row, index_map, key) for every column name the mapper reads,
\* all of them required attributes.
row_cells(row, index_map) ==
  MapOf([key \in {BULK_REQUIRED_ATTRIBUTES[i] : i \in 1..Len(BULK_REQUIRED_ATTRIBUTES)} |->
           get_from_row(row, index_map, key)])

product_variants_first_size(sizes, color, price) ==
  IF sizes = <<>> THEN <<>>
  ELSE <<[size |-> sizes[1], color |-> color, price |-> price]>>

\* [{'size': s, 'color': color, 'price': price} for s in sizes]
product_variants(sizes, color, price) ==
  ListOf([i \in 1..Len(sizes) |-> [size |-> sizes[i], color |-> color, price |-> price]])

\* build_product_from_bulk_row from the point where the sizes and
\* imgs = <<image_urls, tags>> are extracted; g[key] is get_from_row(key).
product_doc(g, sizes, imgs) ==
  LET image_urls == imgs[1]
      tags == imgs[2]
      price == parse_number(g[<<"S","e","l","l","i","n","g"," ","P","r","i","c","e">>], 0)
      mrp == parse_number(g[<<"M","R","P">>], price)
      color == g[<<"C","o","l","o","r">>]
  IN ImageSlots(image_urls) @@ Optional("images", image_urls) @@ Optional("tags", tags) @@
     Optional("variants", product_variants(sizes, color, price)) @@
     [sku_id |-> g[<<"S","K","U">>],
      product_name |-> g[<<"P","r","o","d","u","c","t"," ","N","a","m","e">>],
      name |-> g[<<"P","r","o","d","u","c","t"," ","N","a","m","e">>],
      description |-> g[<<"D","e","s","c","r","i","p","t","i","o","n">>],
      ornamentation |-> g[<<"O","r","n","a","m","e","n","t","a","t","i","o","n">>],
      occasion |-> g[<<"O","c","c","a","s","i","o","n">>],
      generic_name |-> g[<<"G","e","n","e","r","i","c"," ","N","a","m","e">>],
      sizes |-> sizes,
      fastening |-> g[<<"F","a","s","t","e","n","i","n","g"," ","&"," ","B","a","c","k"," ","D","e","t","a","i","l">>],
      heel_height |-> g[<<"H","e","e","l"," ","H","e","i","g","h","t">>],
      heel_type |-> g[<<"H","e","e","l"," ","T","y","p","e">>],
      heel_height_in |-> g[<<"H","e","e","l"," ","H","e","i","g","h","t"," ","(","i","n",")">>],
      insole |-> g[<<"I","n","s","o","l","e">>],
      material |-> g[<<"M","a","t","e","r","i","a","l">>],
      sole_material |-> g[<<"S","o","l","e"," ","M","a","t","e","r","i","a","l">>],
      pattern |-> g[<<"P","a","t","t","e","r","n">>],
      type |-> g[<<"T","y","p","e">>],
      mrp |-> mrp,
      price |-> price,
      meesho_price |-> price,
      return_price |-> parse_number(g[<<"W","r","o","n","g","/","D","e","f","e","c","t","i","v","e"," ","R","e","t","u","r","n","s"," ","P","r","i","c","e">>], 0),
      length_size |-> g[<<"L","e","n","g","t","h"," ","S","i","z","e">>],
      width_size |-> g[<<"W","i","d","t","h"," ","S","i","z","e">>],
      weight |-> parse_int(g[<<"N","e","t"," ","W","e","i","g","h","t">>], 0),
      hsn_code |-> g[<<"H","S","N"," ","C","o","d","e">>],
      gst |-> g[<<"G","S","T">>],
      color |-> color,
      ankle_height |-> g[<<"A","n","k","l","e"," ","H","e","i","g","h","t">>],
      toe_type |-> g[<<"T","o","e"," ","T","y","p","e">>],
      origin |-> g[<<"C","O","U","N","T","R","Y"," ","O","F"," ","O","R","I","G","I","N">>],
      mfg_name |-> g[<<"M","a","n","u","f","a","c","t","u","r","e","r"," ","N","a","m","e">>],
      mfg_address |-> g[<<"M","a","n","u","f","a","c","t","u","r","e","r"," ","A","d","d","r","e","s","s">>],
      category |-> IF g[<<"T","y","p","e">>] # <<>> THEN g[<<"T","y","p","e">>] ELSE <<"G","e","n","e","r","a","l">>,
      inventory |-> parse_int(g[<<"N","e","t"," ","Q","u","a","n","t","i","t","y">>], 0),
      image_1 |-> IF image_urls # <<>> THEN image_urls[1] ELSE <<"h","t","t","p","s",":","/","/","v","i","a",".","p","l","a","c","e","h","o","l","d","e","r",".","c","o","m","/","4","0","0","x","4","0","0">>]

build_product_from_bulk_row(row, index_map) ==
  product_doc(row_cells(row, index_map), extract_variant_sizes(row, index_map),
              extract_image_data(row, index_map))

\* file_storage.filename.rsplit('.', 1)[-1].lower() if '.' in filename else ''
Extension(filename) ==
  IF \E i \in 1..Len(filename) : filename[i] = "." THEN Lower(AfterLast(filename, "."))
  ELSE <<>>

\* The required attributes without a value in this row, in list order.
missing_values(row, index_map) ==
  LET val(col) ==
        LET original_col == IF IndexGet(index_map, normalize_bulk_header(col)) = NoHeader
                            THEN col
                            ELSE IndexGet(index_map, normalize_bulk_header(col))
            v == Strip(RowGet(row, original_col))
        IN IF v = <<>> /\ col = <<"S","i","z","e">>
           THEN Join(extract_variant_sizes(row, index_map), <<",">>)
           ELSE v
  IN SelectSeq(BULK_REQUIRED_ATTRIBUTES, LAMBDA col : val(col) = <<>>)

\* A header check that reports the first missing column only.
missing_columns_first(headers) ==
  LET normalized_headers == {normalize_bulk_header(headers[i]) :
                               i \in {j \in 1..Len(headers) : headers[j] # <<>>}}
      missing == SelectSeq(BULK_REQUIRED_ATTRIBUTES,
                           LAMBDA h : normalize_bulk_header(h) \notin normalized_headers)
  IN IF missing = <<>> THEN <<>> ELSE <<missing[1]>>

\* The required columns no header of the file normalises to, in list order.
missing_columns(headers) ==
  LET normalized_headers == {normalize_bulk_header(headers[i]) :
                               i \in {j \in 1..Len(headers) : headers[j] # <<>>}}
  IN SelectSeq(BULK_REQUIRED_ATTRIBUTES,
               LAMBDA h : normalize_bulk_header(h) \notin normalized_headers)

\* The store-independent part of one pass of the row loop: the missing values
\* of the row, and the document the mapper builds from the row (the loop
\* builds it only when nothing is missing).
validate_row(row, index_map) ==
  [missing |-> missing_values(row, index_map),
   doc |-> build_product_from_bulk_row(row, index_map)]

\* The store-independent part of the row loop, on every row in file order.
validate_rows(rows, index_map) ==
  ListOf([i \in 1..Len(rows) |-> validate_row(rows[i], index_map)])

\* A call that fails before the row loop, and why (status).
upload_stopped(status, names) ==
  [status |-> status, missing |-> names, rows |-> <<>>]

\* The header check on read = <<headers, rows>>, then the rows.
read_rows(read) ==
  LET missing == missing_columns(read[1])
  IN IF missing # <<>> THEN upload_stopped("missing_columns", missing)
     ELSE [status |-> "ok", missing |-> <<>>,
           rows |-> validate_rows(read[2], header_index_map(read[1]))]

\* A reader that takes every file it has no reader for as delimited text.
read_upload_any_extension(file) ==
  IF file.filename = <<>> THEN upload_stopped("no_file", <<>>)
  ELSE IF Extension(file.filename) = <<"x","l","s","x">> /\ xlsx_raises(file.workbook) # "none"
  THEN upload_stopped(xlsx_raises(file.workbook), <<>>)
  ELSE IF Extension(file.filename) = <<"x","l","s","x">> THEN read_rows(xlsx_rows_to_dicts(file.workbook))
  ELSE read_rows(csv_rows_to_dicts(file))

\* process_bulk_upload_file up to the row loop, and the store-independent part
\* of the loop: why the call fails before the loop (status), or the validated
\* rows in file order.
read_upload(file) ==
  IF file.filename = <<>> THEN upload_stopped("no_file", <<>>)
  ELSE IF Extension(file.filename) \notin BULK_ALLOWED_EXTENSIONS
  THEN upload_stopped("unsupported", <<>>)
  ELSE IF Extension(file.filename) = <<"c","s","v">> THEN read_rows(csv_rows_to_dicts(file))
  ELSE IF xlsx_raises(file.workbook) # "none"
  THEN upload_stopped(xlsx_raises(file.workbook), <<>>)
  ELSE read_rows(xlsx_rows_to_dicts(file.workbook))

\* A lookup that never finds the stored SKU.
find_one_never(collection, sku) ==
  FALSE

\* products_collection.find_one({'sku_id': sku}) is not None
find_one(collection, sku) ==
  \E i \in 1..Len(collection) : collection[i].sku_id = sku

\* products_collection.insert_one(doc)
insert_one(collection, doc) ==
  Append(collection, doc)

\* A row loop that counts a row with a stored SKU as skipped without a message.
upload_row_silent(acc, validated, row_index) ==
  IF validated.missing # <<>>
  THEN [acc EXCEPT !.skipped = @ + 1,
                   !.errors = Append(@, [row |-> row_index, kind |-> "missing",
                                         names |-> validated.missing, sku |-> <<>>])]
  ELSE IF find_one(acc.collection, validated.doc.sku_id)
  THEN [acc EXCEPT !.skipped = @ + 1]
  ELSE [acc EXCEPT !.collection = insert_one(@, validated.doc),
                   !.created = @ + 1]

\* A row loop that reports a stored SKU and overwrites its document.
upload_row_overwrite(acc, validated, row_index) ==
  IF validated.missing # <<>>
  THEN [acc EXCEPT !.skipped = @ + 1,
                   !.errors = Append(@, [row |-> row_index, kind |-> "missing",
                                         names |-> validated.missing, sku |-> <<>>])]
  ELSE IF find_one(acc.collection, validated.doc.sku_id)
  THEN [acc EXCEPT !.collection =
                     ListOf([i \in 1..Len(@) |->
                               IF @[i].sku_id = validated.doc.sku_id THEN validated.doc ELSE @[i]]),
                   !.skipped = @ + 1,
                   !.errors = Append(@, [row |-> row_index, kind |-> "exists",
                                         names |-> <<>>, sku |-> validated.doc.sku_id])]
  ELSE [acc EXCEPT !.collection = insert_one(@, validated.doc),
                   !.created = @ + 1]

\* A row loop that reports a row with missing values and stores it all the same.
upload_row_partial(acc, validated, row_index) ==
  IF validated.missing # <<>>
  THEN [acc EXCEPT !.collection = Append(@, validated.doc),
                   !.skipped = @ + 1,
                   !.errors = Append(@, [row |-> row_index, kind |-> "missing",
                                         names |-> validated.missing, sku |-> <<>>])]
  ELSE IF find_one(acc.collection, validated.doc.sku_id)
  THEN [acc EXCEPT !.skipped = @ + 1,
                   !.errors = Append(@, [row |-> row_index, kind |-> "exists",
                                         names |-> <<>>, sku |-> validated.doc.sku_id])]
  ELSE [acc EXCEPT !.collection = insert_one(@, validated.doc),
                   !.created = @ + 1]

\* One pass of the row loop on a validated row, on
\* acc = [collection, created, skipped, errors].  An error is held as a record
\* of the parts its message is formatted from.
upload_row(acc, validated, row_index) ==
  IF validated.missing # <<>>
  THEN [acc EXCEPT !.skipped = @ + 1,
                   !.errors = Append(@, [row |-> row_index, kind |-> "missing",
                                         names |-> validated.missing, sku |-> <<>>])]
  ELSE IF find_one(acc.collection, validated.doc.sku_id)
  THEN [acc EXCEPT !.skipped = @ + 1,
                   !.errors = Append(@, [row |-> row_index, kind |-> "exists",
                                         names |-> <<>>, sku |-> validated.doc.sku_id])]
  ELSE [acc EXCEPT !.collection = insert_one(@, validated.doc),
                   !.created = @ + 1]

\* for row_index, row in enumerate(rows, start=2)
RECURSIVE UploadRows(_, _, _)
UploadRows(rows, row_index, acc) ==
  IF rows = <<>> THEN acc
  ELSE UploadRows(Tail(rows), row_index + 1, upload_row(acc, rows[1], row_index))

\* A row loop that numbers the rows from 1, as if the header row were not counted.
process_bulk_upload_file_from_one(parsed, collection) ==
  IF parsed.status # "ok"
  THEN [ok |-> FALSE, created |-> 0, skipped |-> 0, collection |-> collection,
        errors |-> <<[row |-> 0, kind |-> parsed.status, names |-> parsed.missing,
                      sku |-> <<>>]>>]
  ELSE [ok |-> TRUE] @@
       UploadRows(parsed.rows, 1,
                  [collection |-> collection, created |-> 0, skipped |-> 0, errors |-> <<>>])

\* process_bulk_upload_file on a file read as above, against the collection:
\* the returned (ok, errors, stats) and the collection afterwards.
process_bulk_upload_file(parsed, collection) ==
  IF parsed.status # "ok"
  THEN [ok |-> FALSE, created |-> 0, skipped |-> 0, collection |-> collection,
        errors |-> <<[row |-> 0, kind |-> parsed.status, names |-> parsed.missing,
                      sku |-> <<>>]>>]
  ELSE [ok |-> TRUE] @@
       UploadRows(parsed.rows, 2,
                  [collection |-> collection, created |-> 0, skipped |-> 0, errors |-> <<>>])

(***************************************************************************)
(* Uploaded files given to process_bulk_upload_file.  A file is its name,  *)
(* its header line and its records as the csv module parses them.  The     *)
(* files are written down as sheets: the file name, the required columns   *)
(* the header line lacks, whether two header cells are padded and          *)
(* re-cased, and for each record the cells that differ from a complete row.*)
(***************************************************************************)
UploadHeaders ==
  BULK_REQUIRED_ATTRIBUTES \o <<<<"V","a","r","i","a","n","t"," ","S","i","z","e","s">>, <<"I","m","a","g","e","s">>, <<"T","a","g","s">>>>

\* A header line as an export that pads and re-cases two header cells.
MessyHeaders(headers) ==
  ListOf([j \in 1..Len(headers) |->
     IF headers[j] = <<"S","K","U">> THEN <<" ","s","k","u"," ">>
     ELSE IF headers[j] = <<"P","r","o","d","u","c","t"," ","N","a","m","e">> THEN <<"P","R","O","D","U","C","T"," "," ","N","A","M","E">>
     ELSE headers[j]])

HeaderLine(lacks, messy) ==
  SelectSeq(IF messy THEN MessyHeaders(UploadHeaders) ELSE UploadHeaders,
            LAMBDA h : h \notin lacks)

\* A complete row: every column filled.
DefaultCell(h) ==
  CASE h = <<"S","i","z","e">> -> <<"6",",","7">>
    [] h = <<"C","o","l","o","r">> -> <<"R","e","d">>
    [] h = <<"M","R","P">> -> <<"1",",","2","0","0">>
    [] h = <<"S","e","l","l","i","n","g"," ","P","r","i","c","e">> -> <<"9","9","9">>
    [] h = <<"W","r","o","n","g","/","D","e","f","e","c","t","i","v","e"," ","R","e","t","u","r","n","s"," ","P","r","i","c","e">> -> <<"5","0">>
    [] h = <<"N","e","t"," ","Q","u","a","n","t","i","t","y">> -> <<"1","0">>
    [] h = <<"N","e","t"," ","W","e","i","g","h","t">> -> <<"3","0","0">>
    [] h = <<"L","e","n","g","t","h"," ","S","i","z","e">> -> <<"2","4">>
    [] h = <<"W","i","d","t","h"," ","S","i","z","e">> -> <<"9",".","0">>
    [] h = <<"T","y","p","e">> -> <<"H","e","e","l","s">>
    [] h = <<"V","a","r","i","a","n","t"," ","S","i","z","e","s">> -> <<>>
    [] h = <<"T","a","g","s">> -> <<>>
    [] h = <<"I","m","a","g","e","s">> -> <<"s","h","o","e","1",".","j","p","g","|","h","t","t","p","s",":","/","/","c","d","n",".","e","x","a","m","p","l","e",".","c","o","m","/","a",".","p","n","g">>
    [] OTHER -> <<"x">>

\* The cells of a record, by column, given the cells that differ.
SheetRow(headers, over) ==
  MapOf([h \in {headers[j] : j \in 1..Len(headers)} |->
           IF h \in DOMAIN over THEN over[h] ELSE DefaultCell(h)])

RowA1 ==
  <<"S","K","U">> :> <<"A","1">>

\* The same SKU with other values.
RowA1Blue ==
  (<<"S","K","U">> :> <<" ","A","1"," ">>) @@ (<<"C","o","l","o","r">> :> <<"B","l","u","e">>) @@ (<<"S","i","z","e">> :> <<"8">>)

\* No Size cell, sizes given as size:quantity pairs in another column.
RowB2 ==
  (<<"S","K","U">> :> <<"B","2">>) @@ (<<"S","i","z","e">> :> <<>>) @@ (<<"V","a","r","i","a","n","t"," ","S","i","z","e","s">> :> <<"6",":","1","0",","," ","7",".","0","=","8">>)

\* A blank MRP cell.
RowB2NoMrp ==
  (<<"S","K","U">> :> <<"B","2">>) @@ (<<"M","R","P">> :> <<" ">>)

\* No size anywhere, and no Color.
RowC3NoSize ==
  (<<"S","K","U">> :> <<"C","3">>) @@ (<<"S","i","z","e">> :> <<>>) @@ (<<"L","e","n","g","t","h"," ","S","i","z","e">> :> <<>>) @@
  (<<"W","i","d","t","h"," ","S","i","z","e">> :> <<>>) @@ (<<"C","o","l","o","r">> :> <<>>)

RowC3 ==
  (<<"S","K","U">> :> <<"C","3">>) @@ (<<"I","m","a","g","e","s">> :> <<>>)

\* SKU A1 with tags.
RowA1Tagged ==
  (<<"S","K","U">> :> <<"A","1">>) @@ (<<"T","a","g","s">> :> <<"n","e","w",","," ","s","a","l","e">>)

\* A line of empty cells.
RowEmpty ==
  MapOf([h \in {UploadHeaders[j] : j \in 1..Len(UploadHeaders)} |-> <<>>])

\* The cells of a row under the given header line.
Cells(headers, row) ==
  ListOf([j \in 1..Len(headers) |->
     row[CHOOSE h \in DOMAIN row : normalize_bulk_header(h) = normalize_bulk_header(headers[j])]])

CsvRecords(headers, rows) ==
  ListOf([i \in 1..Len(rows) |-> Cells(headers, SheetRow(UploadHeaders, rows[i]))])

\* What zipfile makes of bytes that are no zip archive.
NotWorkbook ==
  [zip |-> FALSE, names |-> {},
   shared |-> [well_formed |-> FALSE, si |-> <<>>],
   sheet |-> [well_formed |-> FALSE, rows |-> <<>>]]

CsvFile(sheet) ==
  [filename |-> sheet.filename,
   headers |-> HeaderLine(sheet.lacks, sheet.messy),
   records |-> CsvRecords(HeaderLine(sheet.lacks, sheet.messy), sheet.rows),
   workbook |-> NotWorkbook]

\* The column letters of the j-th column: A..Z, AA..AZ, ...
ColumnName(j) ==
  IF j <= 26 THEN <<UpperChars[j]>>
  ELSE <<UpperChars[(j - 1) \div 26], UpperChars[((j - 1) % 26) + 1]>>

RECURSIVE DigitsOf(_)
DigitsOf(n) ==
  IF n < 10 THEN <<DigitChars[n + 1]>>
  ELSE DigitsOf(n \div 10) \o <<DigitChars[(n % 10) + 1]>>

RECURSIVE Flatten(_)
Flatten(lines) ==
  IF lines = <<>> THEN <<>> ELSE lines[1] \o Flatten(Tail(lines))

\* The <si> of a text: longer texts are written as two runs.
SharedItem(text) ==
  IF Len(text) > 3 THEN <<SubSeq(text, 1, 2), SubSeq(text, 3, Len(text))>> ELSE <<text>>

\* The <c> element of the cell in line n, column j: numbers are written as
\* plain values, the first column as inline strings, other texts as indexes
\* into the shared-string table; under damage "index" the cells of the Color
\* column point behind the table.
SheetCellElement(n, j, text, table, outside) ==
  [r |-> ColumnName(j) \o DigitsOf(n),
   t |-> IF AllDigits(text) THEN "n" ELSE IF j = 1 THEN "inlineStr" ELSE "s",
   v |-> IF AllDigits(text) THEN <<text>>
         ELSE IF j = 1 THEN <<>>
         ELSE IF outside THEN <<DigitsOf(Len(table))>>
         ELSE <<DigitsOf((CHOOSE k \in 1..Len(table) : table[k] = text) - 1)>>,
   is |-> IF j = 1 /\ ~AllDigits(text) THEN <<text>> ELSE <<>>]

\* The <row> element of line n; empty cells are left out.
SheetRowElement(n, line, table, outside_column) ==
  LET at == SelectSeq(ListOf([j \in 1..Len(line) |-> j]), LAMBDA j : line[j] # <<>>)
  IN ListOf([c \in 1..Len(at) |->
       SheetCellElement(n, at[c], line[at[c]], table, n > 1 /\ at[c] = outside_column)])

\* The workbook a spreadsheet program saves the lines as, then damaged.
Workbook(lines, damage, outside_column) ==
  LET table == DictKeys(SelectSeq(Flatten(lines), LAMBDA text : text # <<>>), {})
  IN [zip |-> damage # "zip",
      names |-> {"[Content_Types].xml", "xl/workbook.xml", "xl/sharedStrings.xml",
                 "xl/worksheets/sheet1.xml"}
                \ ((IF damage \in {"no_sheet", "no_parts"} THEN {"xl/worksheets/sheet1.xml"}
                    ELSE {}) \cup
                   (IF damage \in {"no_shared", "no_parts"} THEN {"xl/sharedStrings.xml"}
                    ELSE {})),
      shared |-> [well_formed |-> damage # "shared",
                  si |-> ListOf([k \in 1..Len(table) |-> SharedItem(table[k])])],
      sheet |-> [well_formed |-> damage # "sheet",
                 rows |-> ListOf([n \in 1..Len(lines) |->
                            SheetRowElement(n, lines[n], table, outside_column)])]]

\* The position of the Color column in the header line.
ColorColumn(headers) ==
  CHOOSE j \in 1..Len(headers) : headers[j] = <<"C","o","l","o","r">>

XlsxFile(sheet) ==
  [filename |-> sheet.filename,
   headers |-> <<<<"P","K">>>>,
   records |-> <<>>,
   workbook |-> Workbook(<<HeaderLine(sheet.lacks, sheet.messy)>>
                           \o CsvRecords(HeaderLine(sheet.lacks, sheet.messy), sheet.rows),
                         sheet.damage,
                         IF sheet.damage = "index"
                         THEN ColorColumn(HeaderLine(sheet.lacks, sheet.messy)) ELSE 0)]

Sheet(rows) ==
  [filename |-> <<"p","r","o","d","u","c","t","s",".","c","s","v">>, lacks |-> {}, messy |-> FALSE, rows |-> rows,
   damage |-> "none"]

\* A sheet saved as a workbook.
Book(rows, damage) ==
  [Sheet(rows) EXCEPT !.filename = <<"P","r","o","d","u","c","t","s",".","X","L","S","X">>, !.damage = damage]

UploadSheets ==
  << Sheet(<<RowA1>>),
     Sheet(<<RowA1Blue>>),
     Sheet(<<RowB2>>),
     Sheet(<<RowB2NoMrp>>),
     Sheet(<<RowC3NoSize>>),
     Sheet(<<RowA1, RowB2>>),
     Sheet(<<RowA1, RowA1Blue>>),
     Sheet(<<RowB2NoMrp, RowA1>>),
     Sheet(<<RowB2NoMrp, RowB2>>),
     Sheet(<<RowC3NoSize, RowC3>>),
     Sheet(<<RowEmpty, RowC3>>),
     Sheet(<<RowA1, RowB2NoMrp, RowC3>>),
     [Sheet(<<RowB2, RowA1Blue>>) EXCEPT !.messy = TRUE],
     [Sheet(<<RowA1>>) EXCEPT !.lacks = {<<"M","R","P">>}],
     [Sheet(<<RowA1, RowB2>>) EXCEPT !.lacks = {<<"M","R","P">>, <<"G","S","T">>, <<"C","o","l","o","r">>}],
     [Sheet(<<RowC3>>) EXCEPT !.filename = <<"P","R","O","D","U","C","T","S",".","C","S","V">>],
     [Sheet(<<RowA1>>) EXCEPT !.filename = <<"p","r","o","d","u","c","t","s",".","t","x","t">>],
     [Sheet(<<RowA1>>) EXCEPT !.filename = <<"p","r","o","d","u","c","t","s">>, !.lacks = {<<"M","R","P">>}],
     [Sheet(<<RowA1>>) EXCEPT !.filename = <<>>],
     Book(<<RowA1Blue, RowB2>>, "none"),
     Book(<<RowC3, RowA1>>, "index"),
     Book(<<RowA1>>, "zip"),
     Book(<<RowA1>>, "shared"),
     Book(<<RowA1>>, "sheet"),
     Book(<<RowA1>>, "no_sheet"),
     [Book(<<RowA1, RowB2>>, "none") EXCEPT !.lacks = {<<"M","R","P">>, <<"C","o","l","o","r">>}],
     [Sheet(<<RowA1>>) EXCEPT !.filename = <<"p","r","o","d","u","c","t","s",".","x","l","s","x">>],
     Sheet(<<RowEmpty, RowB2NoMrp>>),
     Sheet(<<RowA1Tagged>>) >>

\* The files the sheets are saved as: workbooks under damage or an .xlsx
\* name written by Book, delimited text otherwise.
sheet_files(sheets) ==
  ListOf([f \in 1..Len(sheets) |->
     IF sheets[f].damage # "none" \/ sheets[f].filename = <<"P","r","o","d","u","c","t","s",".","X","L","S","X">>
     THEN XlsxFile(sheets[f]) ELSE CsvFile(sheets[f])])

UploadFiles ==
  sheet_files(UploadSheets)

\* read_upload of every file, computed once.
read_uploads(files) ==
  ListOf([f \in 1..Len(files) |-> read_upload(files[f])])

ReadUploads ==
  read_uploads(UploadFiles)

(***************************************************************************)
(* src/update_db.py: run_quickdeck_upsert.  The sheet is the DataFrame     *)
(* after the column names are stripped and lower-cased: a sequence of rows,*)
(* each a function from column name to cell text; an empty cell is NaN.    *)
(***************************************************************************)
\* str(float('nan')), and the text pandas reads back as an empty cell.
NaN ==
  <<"n","a","n">>

\* The code-point order of the characters SKUs are written with.
CharRank(c) ==
  LET alphabet == DigitChars \o UpperChars \o LowerChars
  IN IF \E i \in 1..Len(alphabet) : alphabet[i] = c
     THEN CHOOSE i \in 1..Len(alphabet) : alphabet[i] = c
     ELSE 0

\* a < b for two texts (Python str comparison).
RECURSIVE TextLess(_, _)
TextLess(a, b) ==
  IF b = <<>> THEN FALSE
  ELSE IF a = <<>> THEN TRUE
  ELSE IF a[1] = b[1] THEN TextLess(Tail(a), Tail(b))
  ELSE CharRank(a[1]) < CharRank(b[1])

\* The group keys of df.groupby('sku'): the distinct SKUs that are not NaN,
\* in ascending order.
RECURSIVE SortedKeys(_)
SortedKeys(keys) ==
  IF keys = {} THEN <<>>
  ELSE LET least == CHOOSE k \in keys : \A o \in keys \ {k} : TextLess(k, o)
       IN <<least>> \o SortedKeys(keys \ {least})

\* first_row.get(column, default)
SheetGet(row, column, default) ==
  IF column \in DOMAIN row THEN row[column] ELSE default

\* float(x) of a cell: <<TRUE, value>>, or <<FALSE, 0>> where it raises ValueError.
\* NaN converts to the float nan, held as the text NaN.
float_of(cell) ==
  IF cell = NaN THEN <<TRUE, NaN>>
  ELSE IF AllDigits(Strip(cell)) THEN <<TRUE, DigitsValue(Strip(cell))>>
  ELSE <<FALSE, 0>>

\* product_data for one group (the rows of the sheet with this SKU).
product_data(sku_val, group) ==
  LET first_row == group[1]
      with_size == SelectSeq(group, LAMBDA r : r["size"] # NaN)
  IN [product_name |-> SheetGet(first_row, "product name", <<>>),
      description |-> SheetGet(first_row, "description", <<>>),
      mrp |-> float_of(SheetGet(first_row, "mrp", <<"0">>))[2],
      price |-> float_of(SheetGet(first_row, "selling price", <<"0">>))[2],
      meesho_price |-> float_of(SheetGet(first_row, "selling price", <<"0">>))[2],
      sku_id |-> sku_val,
      category |-> SheetGet(first_row, "generic name", <<"L","a","d","i","e","s"," ","F","o","o","t","w","e","a","r">>),
      color |-> SheetGet(first_row, "color", <<>>),
      material |-> SheetGet(first_row, "material", <<>>),
      heel_type |-> SheetGet(first_row, "heel type", <<>>),
      heel_height_in |-> SheetGet(first_row, "heel height (in)", <<>>),
      hsn_code |-> SheetGet(first_row, "hsn code", <<>>),
      gst |-> SheetGet(first_row, "gst", <<>>),
      sizes |-> ListOf([i \in 1..Len(with_size) |-> with_size[i]["size"]]),
      image |-> <<"p","l","a","c","e","h","o","l","d","e","r",".","j","p","g">>,
      image_1 |-> <<"/","s","t","a","t","i","c","/","i","m","a","g","e","s","/","p","r","o","d","u","c","t","s","/","p","l","a","c","e","h","o","l","d","e","r",".","j","p","g">>]

\* Whether building product_data raises (a float() of a non-numeric cell).
product_data_raises(group) ==
  \/ ~float_of(SheetGet(group[1], "mrp", <<"0">>))[1]
  \/ ~float_of(SheetGet(group[1], "selling price", <<"0">>))[1]

\* products_collection.update_one({'sku_id': sku}, {'$set': data}, upsert=True)
update_one_upsert(collection, sku, data) ==
  IF \E i \in 1..Len(collection) : collection[i].sku_id = sku
  THEN LET first == CHOOSE i \in 1..Len(collection) :
                      /\ collection[i].sku_id = sku
                      /\ \A j \in 1..(i - 1) : collection[j].sku_id # sku
       IN [collection EXCEPT ![first] = data @@ @]
  ELSE Append(collection, data)

\* The loop over the groups, from the given keys on; acc = [collection,
\* processed_skus, completed].  An exception ends the loop where it is raised.
RECURSIVE SyncGroups(_, _, _)
SyncGroups(keys, sheet, acc) ==
  IF keys = <<>> THEN acc
  ELSE LET group == SelectSeq(sheet, LAMBDA r : r["sku"] = keys[1])
       IN IF product_data_raises(group) THEN [acc EXCEPT !.completed = FALSE]
          ELSE SyncGroups(Tail(keys), sheet,
                          [acc EXCEPT !.collection = update_one_upsert(@, keys[1],
                                                        product_data(keys[1], group)),
                                      !.processed_skus = @ + 1])

run_quickdeck_upsert(sheet, collection) ==
  SyncGroups(SortedKeys({sheet[i]["sku"] : i \in 1..Len(sheet)} \ {NaN, <<>>}), sheet,
             [collection |-> collection, processed_skus |-> 0, completed |-> TRUE])

\* Sheets given to run_quickdeck_upsert.
SyncRow(sku, size, mrp, color) ==
  [c \in {"sku", "size", "product name", "description", "mrp", "selling price",
          "generic name", "color", "material", "heel type", "heel height (in)",
          "hsn code", "gst"} |->
     CASE c = "sku" -> sku
       [] c = "size" -> size
       [] c = "mrp" -> mrp
       [] c = "selling price" -> <<"9","9","9">>
       [] c = "color" -> color
       [] c = "gst" -> NaN
       [] OTHER -> <<"x">>]

SyncSheets ==
  << <<SyncRow(<<"A","1">>, <<"4">>, <<"1","2","0","0">>, <<"R","e","d">>), SyncRow(<<"A","1">>, <<"5">>, <<"1","2","0","0">>, <<"R","e","d">>)>>,
     <<SyncRow(<<"B","2">>, NaN, <<"1","5","0","0">>, <<"B","l","u","e">>), SyncRow(<<"A","1">>, <<"6">>, NaN, <<"G","r","e","e","n">>)>>,
     <<SyncRow(<<"D","4">>, <<"7">>, <<"a","b","c">>, <<"R","e","d">>), SyncRow(<<"C","3">>, <<"7">>, <<"8","0","0">>, <<"R","e","d">>),
       SyncRow(<<"E","5">>, <<"7">>, <<"8","0","0">>, <<"R","e","d">>)>>,
     <<SyncRow(NaN, <<"7">>, <<"8","0","0">>, <<"R","e","d">>)>> >>

(***************************************************************************)
(* src/catalog_portal/bulk_upload/bulk_upload.py: BulkUploader.            *)
(*                                                                         *)
(* A file is its path, whether it exists, its header cells and its data    *)
(* rows as pandas reads them.  A cell is the text str(value) gives, with   *)
(* the empty text for a missing value (fillna("")).  The cell of the       *)
(* "variants" column is held as the value json.loads gives for it.         *)
(***************************************************************************)
REQUIRED_COLUMNS ==
  <<<<"s","k","u">>, <<"n","a","m","e">>, <<"c","a","t","e","g","o","r","y","_","s","l","u","g">>, <<"m","r","p">>, <<"s","e","l","l","i","n","g","_","p","r","i","c","e">>>>

\* Python None.
None ==
  <<"None">>

\* Path(file_path).suffix.lower()
Suffix(path) ==
  LET name == AfterLast(path, "/")
      dots == {i \in 2..Len(name) : name[i] = "."}
  IN IF dots = {} \/ name[Len(name)] = "." THEN <<>>
     ELSE Lower(<<".">> \o AfterLast(name, "."))

\* _load_file: <<"ok", frame>> with frame = [columns, rows], or the exception.
\* pandas raises on a workbook whose archive is damaged.
load_file(file) ==
  IF ~file.exists THEN <<"FileNotFoundError", [columns |-> <<>>, rows |-> <<>>]>>
  ELSE IF Suffix(file.path) \notin {<<".","c","s","v">>, <<".","x","l","s","x">>, <<".","x","l","s">>}
       THEN <<"ValueError", [columns |-> <<>>, rows |-> <<>>]>>
  ELSE IF file.damaged THEN <<"BadZipFile", [columns |-> <<>>, rows |-> <<>>]>>
  ELSE LET columns == ListOf([j \in 1..Len(file.columns) |-> Lower(Strip(file.columns[j]))])
       IN <<"ok",
            [columns |-> columns,
             rows |-> ListOf([i \in 1..Len(file.rows) |->
                        MapOf([c \in {columns[j] : j \in 1..Len(columns)} |->
                                 file.rows[i][CHOOSE j \in 1..Len(columns) : columns[j] = c]])])]>>

\* Decimal(text) of a stripped text that is an optionally signed integer or no
\* number at all: <<is a number, its value>>.
Decimal(text) ==
  LET signed == text # <<>> /\ text[1] \in {"-", "+"}
      digits == IF signed THEN Tail(text) ELSE text
  IN IF ~AllDigits(digits) THEN <<FALSE, 0>>
     ELSE IF signed /\ text[1] = "-" THEN <<TRUE, 0 - DigitsValue(digits)>>
     ELSE <<TRUE, DigitsValue(digits)>>

\* _to_decimal from the point where number is parsed: [ok, number, error].
checked_decimal(number) ==
  IF ~number[1] THEN [ok |-> FALSE, number |-> 0, error |-> "invalid"]
  ELSE IF number[2] < 0 THEN [ok |-> FALSE, number |-> number[2], error |-> "negative"]
  ELSE [ok |-> TRUE, number |-> number[2], error |-> "none"]

to_decimal(value) ==
  checked_decimal(Decimal(Strip(value)))

\* A validation error, held as the parts its message is formatted from.
ValidationError(row_number, kind, column) ==
  [row_number |-> row_number, kind |-> kind, column |-> column]

\* The error of the try block and of the price comparison of one row.
price_errors(row_number, mrp, selling_price) ==
  IF ~mrp.ok THEN <<ValidationError(row_number, mrp.error, <<"m","r","p">>)>>
  ELSE IF ~selling_price.ok
  THEN <<ValidationError(row_number, selling_price.error, <<"s","e","l","l","i","n","g","_","p","r","i","c","e">>)>>
  ELSE IF selling_price.number > mrp.number
  THEN <<ValidationError(row_number, "price_above_mrp", <<"s","e","l","l","i","n","g","_","p","r","i","c","e">>)>>
  ELSE <<>>

empty_errors(row_number, empties) ==
  ListOf([i \in 1..Len(empties) |-> ValidationError(row_number, "empty", empties[i])])

\* The errors _validate_frame appends for one row.
validate_frame_row(row, row_number) ==
  empty_errors(row_number,
               SelectSeq(REQUIRED_COLUMNS, LAMBDA column : Strip(row[column]) = <<>>)) \o
  price_errors(row_number, to_decimal(row[<<"m","r","p">>]), to_decimal(row[<<"s","e","l","l","i","n","g","_","p","r","i","c","e">>]))

RECURSIVE ValidateRows(_, _)
ValidateRows(rows, row_number) ==
  IF rows = <<>> THEN <<>>
  ELSE validate_frame_row(rows[1], row_number) \o ValidateRows(Tail(rows), row_number + 1)

missing_column_errors(absent) ==
  ListOf([i \in 1..Len(absent) |-> ValidationError(1, "missing_column", absent[i])])

\* _validate_frame
validate_frame(frame) ==
  IF \E i \in 1..Len(REQUIRED_COLUMNS) :
       \A j \in 1..Len(frame.columns) : frame.columns[j] # REQUIRED_COLUMNS[i]
  THEN missing_column_errors(
         SelectSeq(REQUIRED_COLUMNS,
                   LAMBDA column : \A j \in 1..Len(frame.columns) : frame.columns[j] # column))
  ELSE ValidateRows(frame.rows, 2)

\* str.replace(sub, '') for a text sub.
RECURSIVE RemoveAll(_, _)
RemoveAll(s, sub) ==
  IF s = <<>> THEN <<>>
  ELSE IF StartsWith(s, sub) THEN RemoveAll(SubSeq(s, Len(sub) + 1, Len(s)), sub)
  ELSE <<s[1]>> \o RemoveAll(Tail(s), sub)

\* row.get(column, default) with the cell stripped.
FrameGet(row, column, default) ==
  Strip(IF column \in DOMAIN row THEN row[column] ELSE default)

\* value or None
OrNone(text) ==
  IF text = <<>> THEN None ELSE text

\* The list json.loads gives for the variants cell, or [] where the cell is
\* blank, is no JSON, or is JSON of another type.
parsed_variants(row) ==
  IF <<"v","a","r","i","a","n","t","s">> \in DOMAIN row /\ row[<<"v","a","r","i","a","n","t","s">>].kind = "list"
  THEN row[<<"v","a","r","i","a","n","t","s">>].items
  ELSE <<>>

\* An attributes dict that takes the blank cells too.
row_attributes_with_blanks(row, columns) ==
  LET keys == SelectSeq(columns, LAMBDA key : StartsWith(key, <<"a","t","t","r","_">>))
  IN DictOf(ListOf([i \in 1..Len(keys) |-> <<RemoveAll(keys[i], <<"a","t","t","r","_">>), row[keys[i]]>>]))

\* The attributes dict of _map_row as its items in column order.
row_attributes(row, columns) ==
  LET keys == SelectSeq(columns, LAMBDA key : StartsWith(key, <<"a","t","t","r","_">>) /\ Strip(row[key]) # <<>>)
  IN DictOf(ListOf([i \in 1..Len(keys) |-> <<RemoveAll(keys[i], <<"a","t","t","r","_">>), row[keys[i]]>>]))

\* _map_row
map_row(row, columns) ==
  [sku |-> Strip(row[<<"s","k","u">>]),
   name |-> Strip(row[<<"n","a","m","e">>]),
   category_slug |-> Strip(row[<<"c","a","t","e","g","o","r","y","_","s","l","u","g">>]),
   description |-> OrNone(FrameGet(row, <<"d","e","s","c","r","i","p","t","i","o","n">>, <<>>)),
   brand |-> OrNone(FrameGet(row, <<"b","r","a","n","d">>, <<>>)),
   hsn_code |-> OrNone(FrameGet(row, <<"h","s","n","_","c","o","d","e">>, <<>>)),
   mrp |-> to_decimal(row[<<"m","r","p">>]).number,
   selling_price |-> to_decimal(row[<<"s","e","l","l","i","n","g","_","p","r","i","c","e">>]).number,
   currency |-> IF FrameGet(row, <<"c","u","r","r","e","n","c","y">>, <<"I","N","R">>) = <<>> THEN <<"I","N","R">>
                ELSE FrameGet(row, <<"c","u","r","r","e","n","c","y">>, <<"I","N","R">>),
   images |-> SelectSeq(LET parts == Runs(FrameGet(row, <<"i","m","a","g","e","s">>, <<>>), {"|"})
                        IN ListOf([i \in 1..Len(parts) |-> Strip(parts[i])]),
                        LAMBDA img : img # <<>>),
   variants |-> parsed_variants(row),
   attributes |-> row_attributes(row, columns)]

\* _variant_value on a variant that is a JSON object (a function from key to value).
variant_value(variant, snake_key, camel_key, default) ==
  IF snake_key \in DOMAIN variant THEN variant[snake_key]
  ELSE IF camel_key \in DOMAIN variant THEN variant[camel_key]
  ELSE default

(***************************************************************************)
(* The PostgreSQL tables, each a sequence of rows in insertion order.      *)
(* categories and attributes are reference data no ingestion writes.       *)
(***************************************************************************)
\* categories.slug (the id of a category is taken to be its slug).
Categories ==
  {<<"h","e","e","l","s">>, <<"f","l","a","t","s">>}

\* attributes: code -> value_type (the id of an attribute is its code).
Attributes ==
  (<<"m","a","t","e","r","i","a","l">> :> "TEXT") @@ (<<"w","e","i","g","h","t">> :> "NUMBER") @@ (<<"w","a","t","e","r","p","r","o","o","f">> :> "BOOLEAN") @@
  (<<"l","a","u","n","c","h">> :> "DATE") @@ (<<"s","p","e","c","s">> :> "JSON")

\* The empty catalog.  variant_seq is the number of variant keys handed out so
\* far; products are never deleted, so their count gives the next product key.
EmptyTables ==
  [products |-> <<>>, product_images |-> <<>>, product_variants |-> <<>>,
   inventory |-> <<>>, product_attribute_values |-> <<>>, variant_seq |-> 0]

\* An upsert whose conflict branch leaves the stored row as it is.
upsert_product_keep(db, payload) ==
  LET conflict == {i \in 1..Len(db.products) : db.products[i].sku = payload.sku}
  IN IF payload.category_slug \notin Categories THEN <<db, None>>
     ELSE IF conflict = {}
          THEN <<[db EXCEPT !.products =
                    Append(@, [id |-> 1 + Len(db.products),
                               category_id |-> payload.category_slug,
                               sku |-> payload.sku,
                               name |-> payload.name,
                               description |-> payload.description,
                               brand |-> payload.brand,
                               hsn_code |-> payload.hsn_code,
                               mrp |-> payload.mrp,
                               selling_price |-> payload.selling_price,
                               currency |-> payload.currency,
                               primary_image_url |-> IF payload.images # <<>>
                                                     THEN payload.images[1] ELSE None])],
                 <<1 + Len(db.products), TRUE>>>>
     ELSE <<db, <<db.products[CHOOSE c \in conflict : TRUE].id, FALSE>>>>

\* INSERT ... SELECT ... FROM categories WHERE slug = %s ON CONFLICT (sku) DO
\* UPDATE ... RETURNING id, (xmax = 0): <<tables, fetched row or None>>, the
\* fetched row being <<id, inserted>>; id is the key the sequence hands to a
\* new row.
upsert_product_as(db, payload, id) ==
  LET fresh == [id |-> id,
                category_id |-> payload.category_slug,
                sku |-> payload.sku,
                name |-> payload.name,
                description |-> payload.description,
                brand |-> payload.brand,
                hsn_code |-> payload.hsn_code,
                mrp |-> payload.mrp,
                selling_price |-> payload.selling_price,
                currency |-> payload.currency,
                primary_image_url |-> IF payload.images # <<>> THEN payload.images[1] ELSE None]
      conflict == {i \in 1..Len(db.products) : db.products[i].sku = payload.sku}
  IN IF payload.category_slug \notin Categories THEN <<db, None>>
     ELSE IF conflict = {}
          THEN <<[db EXCEPT !.products = Append(@, fresh)], <<fresh.id, TRUE>>>>
     ELSE LET i == CHOOSE c \in conflict : TRUE
          IN <<[db EXCEPT !.products[i] = [fresh EXCEPT !.id = db.products[i].id]],
               <<db.products[i].id, FALSE>>>>

\* With one connection at a time the key of a new product is the count of
\* the products plus one.
upsert_product(db, payload) ==
  upsert_product_as(db, payload, 1 + Len(db.products))

\* _replace_product_images without its DELETE.
replace_product_images_append(db, product_id, images) ==
  [db EXCEPT !.product_images =
     @ \o ListOf([n \in 1..Len(images) |->
                    [product_id |-> product_id, image_url |-> images[n], sort_order |-> n - 1]])]

\* _replace_product_images
replace_product_images(db, product_id, images) ==
  [db EXCEPT !.product_images =
     SelectSeq(@, LAMBDA r : r.product_id # product_id) \o
     ListOf([n \in 1..Len(images) |->
               [product_id |-> product_id, image_url |-> images[n], sort_order |-> n - 1]])]

\* A JSON number (a JSON string is held as its text, null as None).
JNum(n) ==
  <<"num", n>>

\* int(x or 0) of a JSON value: <<raises, number>>.
int_or_zero(x) ==
  IF x = None \/ x = <<>> THEN <<FALSE, 0>>
  ELSE IF x[1] = "num" THEN <<FALSE, x[2]>>
  ELSE IF AllDigits(Strip(x)) THEN <<FALSE, DigitsValue(Strip(x))>>
  ELSE <<TRUE, 0>>

\* The loop of _replace_variants from the given variants on: <<tables, raised>>.
RECURSIVE InsertVariants(_, _, _)
InsertVariants(db, product_id, variants) ==
  IF variants = <<>> THEN <<db, "none">>
  ELSE LET item == variants[1]
       IN IF item.type = "number" THEN <<db, "TypeError">>
          ELSE IF item.type = "string" THEN InsertVariants(db, product_id, Tail(variants))
          ELSE LET variant == item.fields
                   v(snake, camel) == variant_value(variant, snake, camel, None)
                   sku0 == variant_value(variant, "variant_sku", "variantSku", <<>>)
                   variant_sku == Strip(IF sku0 = None THEN <<>> ELSE sku0)
                   variant_id == db.variant_seq + 1
                   quantity == int_or_zero(variant_value(variant, "quantity", "quantity", JNum(0)))
                   reserved == int_or_zero(variant_value(variant, "reserved_quantity",
                                                         "reservedQuantity", JNum(0)))
                   reorder == int_or_zero(variant_value(variant, "reorder_level",
                                                        "reorderLevel", JNum(0)))
                   with_variant ==
                     [db EXCEPT !.variant_seq = variant_id, !.product_variants =
                        Append(@, [id |-> variant_id, product_id |-> product_id,
                                   variant_sku |-> variant_sku,
                                   color |-> v("color", "color"),
                                   size |-> v("size", "size"),
                                   mrp |-> v("mrp", "mrp"),
                                   selling_price |-> v("selling_price", "sellingPrice"),
                                   barcode |-> v("barcode", "barcode")])]
               IN IF variant_sku = <<>> THEN InsertVariants(db, product_id, Tail(variants))
                  ELSE IF quantity[1] \/ reserved[1] \/ reorder[1]
                       THEN <<with_variant, "ValueError">>
                  ELSE InsertVariants(
                         [with_variant EXCEPT !.inventory =
                            Append(@, [variant_id |-> variant_id, quantity |-> quantity[2],
                                       reserved_quantity |-> reserved[2],
                                       reorder_level |-> reorder[2]])],
                         product_id, Tail(variants))

\* _replace_variants: <<tables, raised>>.
replace_variants(db, product_id, variants) ==
  LET of_product == {db.product_variants[i].id :
                       i \in {j \in 1..Len(db.product_variants) :
                                db.product_variants[j].product_id = product_id}}
  IN InsertVariants(
       [db EXCEPT !.inventory = SelectSeq(@, LAMBDA r : r.variant_id \notin of_product),
                  !.product_variants = SelectSeq(@, LAMBDA r : r.product_id # product_id)],
       product_id, variants)

\* Decimal(str(value)) of an attribute cell: <<raises, number>>.
decimal_of(value) ==
  <<~Decimal(Strip(value))[1], Decimal(Strip(value))[2]>>

\* The five value columns for a value of the declared type.
attribute_fields(value_type, value) ==
  LET fields == [value_text |-> None, value_number |-> None, value_boolean |-> None,
                 value_date |-> None, value_json |-> None]
  IN CASE value_type = "TEXT" -> [fields EXCEPT !.value_text = value]
       [] value_type = "NUMBER" -> [fields EXCEPT !.value_number = JNum(decimal_of(value)[2])]
       [] value_type = "BOOLEAN" ->
            [fields EXCEPT !.value_boolean =
               IF Lower(Strip(value)) \in {<<"t","r","u","e">>, <<"1">>, <<"y","e","s">>} THEN <<"t">> ELSE <<"f">>]
       [] value_type = "DATE" -> [fields EXCEPT !.value_date = value]
       [] value_type = "JSON" -> [fields EXCEPT !.value_json = <<"json", value>>]
       [] OTHER -> fields

\* An INSERT without the ON CONFLICT clause, on a table without the key.
upsert_attribute_row_insert(rows, new) ==
  Append(rows, new)

\* INSERT INTO product_attribute_values ... ON CONFLICT (product_id, attribute_id) DO UPDATE
upsert_attribute_row(rows, new) ==
  LET conflict == {i \in 1..Len(rows) : rows[i].product_id = new.product_id
                                        /\ rows[i].attribute_id = new.attribute_id}
  IN IF conflict = {} THEN Append(rows, new)
     ELSE [rows EXCEPT ![CHOOSE c \in conflict : TRUE] = new]

\* _upsert_attribute_values from the given items on: <<tables, raised>>.
RECURSIVE upsert_attribute_values(_, _, _)
upsert_attribute_values(db, product_id, attributes) ==
  IF attributes = <<>> THEN <<db, "none">>
  ELSE LET code == attributes[1][1]
           value == attributes[1][2]
       IN IF code \notin DOMAIN Attributes
          THEN upsert_attribute_values(db, product_id, Tail(attributes))
          ELSE IF Attributes[code] = "NUMBER" /\ decimal_of(value)[1]
          THEN <<db, "InvalidOperation">>
          ELSE upsert_attribute_values(
                 [db EXCEPT !.product_attribute_values =
                    upsert_attribute_row(@, [product_id |-> product_id, attribute_id |-> code]
                                            @@ attribute_fields(Attributes[code], value))],
                 product_id, Tail(attributes))

\* A rollback that leaves the statements already executed in place.
rollback_keep(committed, working) ==
  working

\* What leaving "with psycopg2.connect(...) as connection" does to the stored
\* tables: it commits the transaction after the block ran through, and rolls
\* it back when an exception leaves the block.
commit(committed, working) ==
  working

rollback(committed, working) ==
  committed

(***************************************************************************)
(* Files given to BulkUploader.run.                                        *)
(***************************************************************************)
BulkColumns ==
  <<<<"S","K","U">>, <<"n","a","m","e">>, <<" ","C","a","t","e","g","o","r","y","_","S","l","u","g">>, <<"m","r","p">>, <<"s","e","l","l","i","n","g","_","p","r","i","c","e">>, <<"i","m","a","g","e","s">>, <<"v","a","r","i","a","n","t","s">>,
    <<"a","t","t","r","_","m","a","t","e","r","i","a","l">>, <<"a","t","t","r","_","w","e","i","g","h","t">>, <<"a","t","t","r","_","s","e","a","s","o","n">>>>

JsonBlank ==
  [kind |-> "blank", items |-> <<>>]

JsonList(items) ==
  [kind |-> "list", items |-> items]

JsonDict(fields) ==
  [type |-> "dict", fields |-> fields]

\* sku, name, category_slug, mrp, selling_price, images, variants, material, weight, season
FrameA1 ==
  <<<<"A","1">>, <<"C","o","u","r","t"," ","S","h","o","e">>, <<"h","e","e","l","s">>, <<"1","2","0","0">>, <<"9","9","9">>, <<"a",".","j","p","g"," ","|"," ","b",".","j","p","g">>,
    JsonList(<<JsonDict(("variant_sku" :> <<"A","1","-","6">>) @@ ("size" :> <<"6">>) @@ ("quantity" :> JNum(5))),
               JsonDict(("variantSku" :> <<"A","1","-","7">>) @@ ("size" :> <<"7">>) @@ ("quantity" :> <<"3">>)
                        @@ ("sellingPrice" :> JNum(950)))>>),
    <<"L","e","a","t","h","e","r">>, <<"3","0","0">>, <<>>>>

FrameA1Flat ==
  <<<<" ","A","1"," ">>, <<"F","l","a","t"," ","S","h","o","e">>, <<"f","l","a","t","s">>, <<"1","5","0","0">>, <<"1","5","0","0">>, <<>>, JsonBlank, <<>>, <<"2","5","0">>, <<>>>>

FrameB2 ==
  <<<<"B","2">>, <<"S","a","n","d","a","l">>, <<"h","e","e","l","s">>, <<"8","0","0">>, <<"7","0","0">>, <<"c",".","p","n","g">>,
    JsonList(<<JsonDict(("variant_sku" :> <<"B","2","-","5">>) @@ ("size" :> <<"5">>)),
               JsonDict("size" :> <<"6">>), [type |-> "string", fields |-> <<>>]>>),
    <<>>, <<>>, <<>>>>

FrameB2Boots ==
  <<<<"B","2">>, <<"B","o","o","t">>, <<"b","o","o","t","s">>, <<"8","0","0">>, <<"7","0","0">>, <<"d",".","p","n","g">>, JsonBlank, <<>>, <<>>, <<>>>>

FrameC3 ==
  <<<<"C","3">>, <<"L","o","a","f","e","r">>, <<"f","l","a","t","s">>, <<"6","0","0">>, <<"6","0","0">>, <<"e",".","p","n","g","|","f",".","p","n","g">>,
    [kind |-> "invalid", items |-> <<>>], <<"S","u","e","d","e">>, <<>>, <<>>>>

FrameC3Season ==
  <<<<"C","3">>, <<"L","o","a","f","e","r">>, <<"f","l","a","t","s">>, <<"6","0","0">>, <<"5","0","0">>, <<"g",".","p","n","g">>, JsonBlank, <<>>, <<>>, <<"S","u","m","m","e","r">>>>

\* The second element of the variants list is a JSON number.
FrameD4BadVariant ==
  <<<<"D","4">>, <<"M","u","l","e">>, <<"h","e","e","l","s">>, <<"9","0","0">>, <<"9","0","0">>, <<"h",".","p","n","g">>,
    JsonList(<<JsonDict("variant_sku" :> <<"D","4","-","6">>), [type |-> "number", fields |-> <<>>]>>),
    <<>>, <<>>, <<>>>>

\* attr_weight is declared NUMBER and holds no number.
FrameB2BadWeight ==
  <<<<"B","2">>, <<"S","a","n","d","a","l">>, <<"f","l","a","t","s">>, <<"8","0","0">>, <<"7","5","0">>, <<"i",".","p","n","g">>,
    JsonList(<<JsonDict(("variant_sku" :> <<"B","2","-","9">>) @@ ("quantity" :> JNum(1)))>>),
    <<"R","u","b","b","e","r">>, <<"h","e","a","v","y">>, <<>>>>

\* selling_price above mrp.
FrameE5Pricey ==
  <<<<"E","5">>, <<"P","u","m","p">>, <<"h","e","e","l","s">>, <<"5","0","0">>, <<"5","0","1">>, <<>>, JsonBlank, <<>>, <<>>, <<>>>>

\* No name, and a negative mrp.
FrameE5NoName ==
  <<<<"E","5">>, <<" ">>, <<"h","e","e","l","s">>, <<"-","5">>, <<"0">>, <<>>, JsonBlank, <<>>, <<>>, <<>>>>

\* A file with a column for an attribute of every type in place of the images,
\* variants and season columns.
TypedColumns ==
  [BulkColumns EXCEPT ![6] = <<"a","t","t","r","_","l","a","u","n","c","h">>, ![7] = <<"A","T","T","R","_","S","P","E","C","S">>, ![10] = <<"a","t","t","r","_","w","a","t","e","r","p","r","o","o","f"," ">>]

\* sku, name, category_slug, mrp, selling_price, launch, specs, material, weight, waterproof
FrameF6 ==
  <<<<"F","6">>, <<"C","l","o","g">>, <<"f","l","a","t","s">>, <<"7","0","0">>, <<"6","5","0">>, <<"2","0","2","4","-","0","5","-","0","1">>, <<"{","\"","s","o","l","e","\"",":"," ","\"","c","o","r","k","\"","}">>,
    <<"C","o","r","k">>, <<"4","1","0">>, <<" ","Y","e","s"," ">>>>

FrameF6Later ==
  <<<<"F","6">>, <<"C","l","o","g">>, <<"f","l","a","t","s">>, <<"7","0","0">>, <<"6","0","0">>, <<"2","0","2","5","-","0","1","-","1","5">>, <<>>,
    <<"R","u","b","b","e","r">>, <<"0","0">>, <<"n","o">>>>

BulkFile(rows) ==
  [path |-> <<"u","p","l","o","a","d","s","/","p","r","o","d","u","c","t","s",".","v","2",".","C","S","V">>, exists |-> TRUE, damaged |-> FALSE,
   columns |-> BulkColumns, rows |-> rows]

BulkFiles ==
  << BulkFile(<<FrameA1>>),
     BulkFile(<<FrameA1Flat>>),
     BulkFile(<<FrameB2>>),
     BulkFile(<<FrameC3>>),
     BulkFile(<<FrameA1, FrameA1Flat>>),
     BulkFile(<<FrameA1Flat, FrameA1, FrameB2>>),
     BulkFile(<<FrameA1, FrameB2Boots, FrameC3>>),
     BulkFile(<<FrameC3Season, FrameB2>>),
     BulkFile(<<FrameA1, FrameE5Pricey>>),
     BulkFile(<<FrameE5NoName, FrameB2>>),
     BulkFile(<<FrameD4BadVariant>>),
     BulkFile(<<FrameB2, FrameD4BadVariant>>),
     BulkFile(<<FrameA1, FrameB2BadWeight>>),
     BulkFile(<<>>),
     [BulkFile(<<FrameA1>>) EXCEPT !.columns = [BulkColumns EXCEPT ![4] = <<"p","r","i","c","e">>]],
     [BulkFile(<<FrameA1>>) EXCEPT !.exists = FALSE],
     [BulkFile(<<FrameA1>>) EXCEPT !.path = <<"u","p","l","o","a","d","s","/","p","r","o","d","u","c","t","s",".","t","x","t">>],
     [BulkFile(<<FrameA1>>) EXCEPT !.path = <<"u","p","l","o","a","d","s","/","p","r","o","d","u","c","t","s",".","x","l","s","x">>, !.damaged = TRUE],
     [BulkFile(<<FrameF6>>) EXCEPT !.columns = TypedColumns],
     [BulkFile(<<FrameF6Later>>) EXCEPT !.columns = TypedColumns] >>

\* for _, row in frame.iterrows(): product_payload = self._map_row(row)
map_rows(frame) ==
  ListOf([i \in 1..Len(frame.rows) |-> map_row(frame.rows[i], frame.columns)])

\* BulkUploader.run up to the connection of _persist: the exception _load_file
\* raised ("ok" when none), the validation errors, the length of the frame and
\* the payloads its rows are mapped to once they are persisted.
checked_frame(raised, frame, errors) ==
  [raised |-> raised,
   errors |-> IF raised = "ok" THEN errors ELSE <<>>,
   rows |-> Len(frame.rows),
   payloads |-> IF raised = "ok" /\ errors = <<>> THEN map_rows(frame) ELSE <<>>]

validated_frame(loaded) ==
  checked_frame(loaded[1], loaded[2], validate_frame(loaded[2]))

\* That part of run for every file, computed once.
validated_frames(files) ==
  ListOf([f \in 1..Len(files) |-> validated_frame(load_file(files[f]))])

Frames ==
  validated_frames(BulkFiles)

(***************************************************************************)
(* State.                                                                  *)
(***************************************************************************)
VARIABLES
  adapter,              \* the persistence strategy of this deployment
  products_collection,  \* MongoDB quickdeck_db.products, in insertion order
  pg,                   \* the committed PostgreSQL tables
  tx,                   \* the tables as the open transaction sees them
  run,                  \* the BulkUploader.run in progress
  calls,                \* the finished ingestion calls, oldest first
  requests,             \* the upload requests being served, by worker
  sessions              \* the BulkUploader runs that share the database, by connection

vars ==
  <<adapter, products_collection, pg, tx, run, calls, requests, sessions>>

\* Ingestion calls made in one behaviour.
MaxRuns ==
  2

Idle ==
  [pc |-> "idle", file |-> 0, dry_run |-> FALSE, row |-> 0, payloads |-> <<>>, created |-> 0,
   updated |-> 0, product_id |-> 0, is_created |-> <<>>]

\* The web workers that serve upload requests.
Workers ==
  {1, 2}

\* A worker with no request: the locals of process_bulk_upload_file, row being
\* the place in rows of the row the loop is at.
NoRequest ==
  [pc |-> "idle", file |-> 0, row |-> 0, ok |-> TRUE, created |-> 0, skipped |-> 0,
   errors |-> <<>>, before |-> <<>>]

\* The connections BulkUploader runs hold at once.
Sessions ==
  {1, 2}

\* A connection without a run: the locals of _persist, the tables as its
\* transaction sees them, and the SKUs of the product rows it has written and
\* so holds locked until it ends.
NoSession ==
  Idle @@ [tx |-> EmptyTables, locks |-> {}]

Init ==
  /\ adapter \in {"document", "relational"}
  /\ products_collection = <<>>
  /\ pg = EmptyTables
  /\ tx = EmptyTables
  /\ run = Idle
  /\ calls = <<>>
  /\ requests = [w \in Workers |-> NoRequest]
  /\ sessions = [s \in Sessions |-> NoSession]

\* The return of process_bulk_upload_file(file f) against the collection.
Uploaded(f, out) ==
  /\ products_collection' = out.collection
  /\ calls' = Append(calls, [op |-> "upload", input |-> f, ok |-> out.ok,
                             created |-> out.created, skipped |-> out.skipped,
                             errors |-> out.errors, before |-> products_collection])

\* One call of process_bulk_upload_file (the admin upload routes).
BulkUpload(f) ==
  /\ adapter = "document"
  /\ Len(calls) < MaxRuns
  /\ Uploaded(f, process_bulk_upload_file(ReadUploads[f], products_collection))
  /\ UNCHANGED <<adapter, pg, tx, run, requests, sessions>>

\* The end of run_quickdeck_upsert on sheet s.
Synced(s, out) ==
  /\ products_collection' = out.collection
  /\ calls' = Append(calls, [op |-> "sync", input |-> s, ok |-> out.completed,
                             created |-> out.processed_skus, skipped |-> 0,
                             errors |-> <<>>, before |-> products_collection])

\* One run of update_db.py.
QuickdeckUpsert(s) ==
  /\ adapter = "document"
  /\ Len(calls) < MaxRuns
  /\ Synced(s, run_quickdeck_upsert(SyncSheets[s], products_collection))
  /\ UNCHANGED <<adapter, pg, tx, run, requests, sessions>>

\* The record of a finished BulkUploader.run: its report, or the exception
\* that left it (raised) and the data row it was persisting then.
BulkCall(f, dry_run, report, raised, row, is_created) ==
  [op |-> "bulk", input |-> f, dry_run |-> dry_run, raised |-> raised, row |-> row,
   is_created |-> is_created, before |-> pg] @@ report

NoReport ==
  [ok |-> FALSE, created |-> 0, updated |-> 0, skipped |-> 0, errors |-> <<>>]

\* A run that goes on to _persist whatever dry_run says.
Started_without_dry_run(f, dry_run, frame) ==
  IF frame.raised # "ok"
  THEN /\ calls' = Append(calls, BulkCall(f, dry_run, NoReport, frame.raised, 0, <<>>))
       /\ UNCHANGED <<tx, run>>
  ELSE IF frame.errors # <<>>
  THEN /\ calls' = Append(calls, BulkCall(f, dry_run,
                            [NoReport EXCEPT !.skipped = Len(frame.errors),
                                             !.errors = frame.errors],
                            "none", 0, <<>>))
       /\ UNCHANGED <<tx, run>>
  ELSE /\ run' = [Idle EXCEPT !.file = f, !.dry_run = dry_run, !.row = 1,
                              !.payloads = frame.payloads,
                              !.pc = IF frame.payloads = <<>> THEN "commit"
                                     ELSE "upsert_product"]
       /\ tx' = pg
       /\ UNCHANGED calls

\* BulkUploader.run on file f up to the first statement of _persist, frame
\* being what loading and validating the file gave.
Started(f, dry_run, frame) ==
  IF frame.raised # "ok"
  THEN /\ calls' = Append(calls, BulkCall(f, dry_run, NoReport, frame.raised, 0, <<>>))
       /\ UNCHANGED <<tx, run>>
  ELSE IF frame.errors # <<>>
  THEN /\ calls' = Append(calls, BulkCall(f, dry_run,
                            [NoReport EXCEPT !.skipped = Len(frame.errors),
                                             !.errors = frame.errors],
                            "none", 0, <<>>))
       /\ UNCHANGED <<tx, run>>
  ELSE IF dry_run
  THEN /\ calls' = Append(calls, BulkCall(f, dry_run,
                            [NoReport EXCEPT !.ok = TRUE, !.created = frame.rows],
                            "none", 0, <<>>))
       /\ UNCHANGED <<tx, run>>
  ELSE /\ run' = [Idle EXCEPT !.file = f, !.dry_run = dry_run, !.row = 1,
                              !.payloads = frame.payloads,
                              !.pc = IF frame.payloads = <<>> THEN "commit"
                                     ELSE "upsert_product"]
       /\ tx' = pg
       /\ UNCHANGED calls

BulkRun(f, dry_run) ==
  /\ adapter = "relational"
  /\ run.pc = "idle"
  /\ Len(calls) < MaxRuns
  /\ Started(f, dry_run, Frames[f])
  /\ UNCHANGED <<adapter, products_collection, pg, requests, sessions>>

\* An exception leaves _persist: the transaction is rolled back and run raises.
Raise(raised) ==
  /\ pg' = rollback(pg, tx)
  /\ tx' = rollback(pg, tx)
  /\ calls' = Append(calls, BulkCall(run.file, run.dry_run, NoReport, raised, run.row,
                                      run.is_created))
  /\ run' = Idle

product_payload ==
  run.payloads[run.row]

\* The row _upsert_product fetched: None raises ValueError, else it is counted.
Fetched(out) ==
  IF out[2] = None
  THEN Raise("ValueError")
  ELSE /\ tx' = out[1]
       /\ run' = [run EXCEPT !.pc = "replace_images",
                             !.product_id = out[2][1],
                             !.is_created = Append(@, out[2][2]),
                             !.created = IF out[2][2] THEN @ + 1 ELSE @,
                             !.updated = IF out[2][2] THEN @ ELSE @ + 1]
       /\ UNCHANGED <<pg, calls>>

\* product_id, is_created = self._upsert_product(cursor, product_payload)
UpsertProduct ==
  /\ run.pc = "upsert_product"
  /\ Fetched(upsert_product(tx, product_payload))
  /\ UNCHANGED <<adapter, products_collection, requests, sessions>>

\* self._replace_product_images(cursor, product_id, product_payload["images"])
ReplaceProductImages ==
  /\ run.pc = "replace_images"
  /\ tx' = replace_product_images(tx, run.product_id, product_payload.images)
  /\ run' = [run EXCEPT !.pc = "replace_variants"]
  /\ UNCHANGED <<adapter, products_collection, pg, calls, requests, sessions>>

\* The statement ran into out = <<tables, raised>>; without an exception the
\* run goes on at pc.
Executed(out, pc) ==
  IF out[2] # "none"
  THEN Raise(out[2])
  ELSE /\ tx' = out[1]
       /\ run' = [run EXCEPT !.pc = pc,
                             !.row = IF pc = "upsert_product" THEN @ + 1 ELSE @]
       /\ UNCHANGED <<pg, calls>>

\* self._replace_variants(cursor, product_id, product_payload["variants"])
ReplaceVariants ==
  /\ run.pc = "replace_variants"
  /\ Executed(replace_variants(tx, run.product_id, product_payload.variants),
              "upsert_attributes")
  /\ UNCHANGED <<adapter, products_collection, requests, sessions>>

\* self._upsert_attribute_values(cursor, product_id, product_payload["attributes"])
\* and the step of the loop to the next row.
UpsertAttributeValues ==
  /\ run.pc = "upsert_attributes"
  /\ Executed(upsert_attribute_values(tx, run.product_id, product_payload.attributes),
              IF run.row < Len(run.payloads) THEN "upsert_product" ELSE "commit")
  /\ UNCHANGED <<adapter, products_collection, requests, sessions>>

\* The with-block is left normally: the transaction commits and run returns.
Commit ==
  /\ run.pc = "commit"
  /\ pg' = commit(pg, tx)
  /\ tx' = commit(pg, tx)
  /\ calls' = Append(calls, BulkCall(run.file, run.dry_run,
                       [NoReport EXCEPT !.ok = TRUE, !.created = run.created,
                                        !.updated = run.updated],
                       "none", 0, run.is_created))
  /\ run' = Idle
  /\ UNCHANGED <<adapter, products_collection, requests, sessions>>

\* The connection is lost during a statement (psycopg2.OperationalError).
ConnectionLost ==
  /\ run.pc \in {"upsert_product", "replace_images", "replace_variants", "upsert_attributes"}
  /\ Raise("OperationalError")
  /\ UNCHANGED <<adapter, products_collection, requests, sessions>>

Next ==
  \/ \E f \in 1..Len(UploadFiles) : BulkUpload(f)
  \/ \E s \in 1..Len(SyncSheets) : QuickdeckUpsert(s)
  \/ \E f \in 1..Len(BulkFiles), dry_run \in BOOLEAN : BulkRun(f, dry_run)
  \/ UpsertProduct
  \/ ReplaceProductImages
  \/ ReplaceVariants
  \/ UpsertAttributeValues
  \/ Commit
  \/ ConnectionLost

Spec ==
  Init /\ [][Next]_vars

(***************************************************************************)
(* Properties of the document store (process_bulk_upload_file and          *)
(* run_quickdeck_upsert).                                                  *)
(***************************************************************************)
\* The collection as call n left it.
CollectionAfter(n) ==
  IF n < Len(calls) THEN calls[n + 1].before ELSE products_collection

\* The tables as call n left them committed.
TablesAfter(n) ==
  IF n < Len(calls) THEN calls[n + 1].before ELSE pg

DistinctSkus(collection) ==
  {collection[i].sku_id : i \in 1..Len(collection)}

\* C1: after any sequence of serialized ingestion runs, over files that may
\* repeat a SKU, the catalog holds at most one product per SKU, in the
\* document store and in the relational store (committed or in a transaction).
OneProductPerSku ==
  /\ \A i, j \in 1..Len(products_collection) :
       products_collection[i].sku_id = products_collection[j].sku_id => i = j
  /\ \A i, j \in 1..Len(pg.products) : pg.products[i].sku = pg.products[j].sku => i = j
  /\ \A i, j \in 1..Len(tx.products) : tx.products[i].sku = tx.products[j].sku => i = j

\* A row whose SKU was stored already has been ingested again.
StoredSkuReingested ==
  \E n \in 1..Len(calls) :
    /\ calls[n].op = "upload"
    /\ \E e \in 1..Len(calls[n].errors) : calls[n].errors[e].kind = "exists"
    /\ Len(products_collection) >= 1

\* Every row of the file carries every required value.
AllRowsComplete(parsed) ==
  /\ parsed.status = "ok"
  /\ parsed.rows # <<>>
  /\ \A i \in 1..Len(parsed.rows) : parsed.rows[i].missing = <<>>

\* C2: when a file whose rows all carry every required value is ingested by
\* process_bulk_upload_file twice in a row, the second call reports none of
\* its rows as skipped or as an error (they count as updated), and the
\* collection holds as many distinct SKUs after the second call as before it.
ReingestReportsUpdated ==
  \A n \in 1..(Len(calls) - 1) :
    (/\ calls[n].op = "upload"
     /\ calls[n + 1].op = "upload"
     /\ calls[n + 1].input = calls[n].input
     /\ AllRowsComplete(ReadUploads[calls[n].input]))
    => /\ calls[n + 1].skipped = 0
       /\ calls[n + 1].errors = <<>>
       /\ DistinctSkus(CollectionAfter(n + 1)) = DistinctSkus(calls[n + 1].before)

\* C4: in process_bulk_upload_file a row that lacks a required value (after
\* the Size fallback) writes nothing: it gets exactly one error, which names
\* its missing values, the collection grows by the documents of complete rows
\* only, one per row counted created, and every other row is still processed
\* (its SKU is stored once the call returns, and every row is counted).
MissingValueRowSkipped ==
  \A n \in 1..Len(calls) :
    (calls[n].op = "upload" /\ ReadUploads[calls[n].input].status = "ok") =>
      LET rows == ReadUploads[calls[n].input].rows
          errors == calls[n].errors
          before == calls[n].before
          after == CollectionAfter(n)
          incomplete == {i \in 1..Len(rows) : rows[i].missing # <<>>}
      IN /\ \A i \in incomplete :
              /\ Cardinality({e \in 1..Len(errors) : errors[e].row = i + 1}) = 1
              /\ \A e \in 1..Len(errors) :
                   errors[e].row = i + 1 =>
                     errors[e].kind = "missing" /\ errors[e].names = rows[i].missing
         /\ Len(after) = Len(before) + calls[n].created
         /\ SubSeq(after, 1, Len(before)) = before
         /\ \A d \in (Len(before) + 1)..Len(after) :
              \E i \in (1..Len(rows)) \ incomplete : after[d] = rows[i].doc
         /\ \A i \in (1..Len(rows)) \ incomplete :
              \E d \in 1..Len(after) : after[d].sku_id = rows[i].doc.sku_id
         /\ calls[n].created + calls[n].skipped = Len(rows)
         /\ Cardinality(incomplete) <= calls[n].skipped

\* A call skipped a row with a missing value and stored a later row.
LaterRowStoredAfterSkip ==
  \E n \in 1..Len(calls) :
    /\ calls[n].op = "upload"
    /\ calls[n].created >= 1
    /\ \E e \in 1..Len(calls[n].errors) :
         /\ calls[n].errors[e].kind = "missing"
         /\ calls[n].errors[e].row = 2
    /\ Len(CollectionAfter(n)) > Len(calls[n].before)

\* The required columns the header line of the file lacks, in list order.
LackedColumns(file) ==
  SelectSeq(BULK_REQUIRED_ATTRIBUTES,
            LAMBDA c : \A j \in 1..Len(file.headers) :
                         normalize_bulk_header(file.headers[j]) # normalize_bulk_header(c))

\* The header row of an upload file: the first line of a delimited text; in a
\* workbook the first row of its sheet, none when it has no sheet, and not
\* looked at when the workbook cannot be read.
HeaderRowOf(sheet, file) ==
  IF Extension(file.filename) # <<"x","l","s","x">> THEN file.headers
  ELSE IF ~file.workbook.zip \/ sheet.damage \in {"shared", "sheet"} THEN UploadHeaders
  ELSE IF sheet.damage = "no_sheet" THEN <<>>
  ELSE HeaderLine(sheet.lacks, sheet.messy)

\* LackedColumns of every upload file, and the files that are named *.csv or
\* *.xlsx.
LackedByFile ==
  ListOf([f \in 1..Len(UploadFiles) |->
            LackedColumns([headers |-> HeaderRowOf(UploadSheets[f], UploadFiles[f])])])

NamedSheetFiles ==
  {f \in 1..Len(UploadFiles) :
     /\ UploadFiles[f].filename # <<>>
     /\ Extension(UploadFiles[f].filename) \in BULK_ALLOWED_EXTENSIONS}

\* C5: for a named CSV/XLSX upload whose header row lacks a required column,
\* process_bulk_upload_file returns ok = False with exactly one error, which
\* names every missing required column; no row is counted and the collection
\* is unchanged.
MissingColumnsRejected ==
  \A n \in 1..Len(calls) :
    (/\ calls[n].op = "upload"
     /\ calls[n].input \in NamedSheetFiles
     /\ LackedByFile[calls[n].input] # <<>>)
    => /\ ~calls[n].ok
       /\ Len(calls[n].errors) = 1
       /\ calls[n].errors[1].kind = "missing_columns"
       /\ calls[n].errors[1].names = LackedByFile[calls[n].input]
       /\ calls[n].created = 0
       /\ calls[n].skipped = 0
       /\ CollectionAfter(n) = calls[n].before

\* A file lacking several required columns was uploaded to a filled store.
SeveralColumnsMissing ==
  \E n \in 1..Len(calls) :
    /\ calls[n].op = "upload"
    /\ ~calls[n].ok
    /\ calls[n].errors[1].kind = "missing_columns"
    /\ Len(calls[n].errors[1].names) >= 2
    /\ calls[n].before # <<>>

(***************************************************************************)
(* Properties of the relational store (BulkUploader).                      *)
(***************************************************************************)
\* What one pass of the loop of _persist writes for payload q, seen in a
\* catalog that was empty before: the tables, and whether no statement raised.
PersistedAlone(q) ==
  LET product == upsert_product(EmptyTables, q)
      images == replace_product_images(product[1], 1, q.images)
      variants == replace_variants(images, 1, q.variants)
      attributes == upsert_attribute_values(variants[1], 1, q.attributes)
  IN [ok |-> product[2] # None /\ variants[2] = "none" /\ attributes[2] = "none",
      db |-> attributes[1]]

\* The rows of a product, without the keys the store hands out.
ProductRow(db, id) ==
  LET at == CHOOSE i \in 1..Len(db.products) : db.products[i].id = id
  IN [db.products[at] EXCEPT !.id = 0]

ImageRows(db, id) ==
  LET rows == SelectSeq(db.product_images, LAMBDA r : r.product_id = id)
  IN [i \in 1..Len(rows) |-> <<rows[i].image_url, rows[i].sort_order>>]

InventoryRows(db, variant_id) ==
  LET rows == SelectSeq(db.inventory, LAMBDA r : r.variant_id = variant_id)
  IN [i \in 1..Len(rows) |-> [rows[i] EXCEPT !.variant_id = 0]]

VariantRows(db, id) ==
  LET rows == SelectSeq(db.product_variants, LAMBDA r : r.product_id = id)
  IN [i \in 1..Len(rows) |->
        [variant |-> [rows[i] EXCEPT !.id = 0, !.product_id = 0],
         inventory |-> InventoryRows(db, rows[i].id)]]

AttributeRows(db, id) ==
  {[db.product_attribute_values[i] EXCEPT !.product_id = 0] :
     i \in {j \in 1..Len(db.product_attribute_values) :
              db.product_attribute_values[j].product_id = id}}

\* The product id of db shows every write of the pass that gave alone.
ReflectsRow(db, id, alone) ==
  /\ ProductRow(db, id) = ProductRow(alone, 1)
  /\ ImageRows(db, id) = ImageRows(alone, 1)
  /\ VariantRows(db, id) = VariantRows(alone, 1)
  /\ AttributeRows(alone, 1) \subseteq AttributeRows(db, id)

\* Every payload a row of some file is mapped to.
AllPayloads ==
  UNION {{Frames[f].payloads[i] : i \in 1..Len(Frames[f].payloads)} : f \in 1..Len(Frames)}

HasSku(db, sku) ==
  \E i \in 1..Len(db.products) : db.products[i].sku = sku

\* No child row is left without its parent.
NoOrphanRows(db) ==
  LET ids == {db.products[i].id : i \in 1..Len(db.products)}
      variant_ids == {db.product_variants[i].id : i \in 1..Len(db.product_variants)}
  IN /\ \A i \in 1..Len(db.product_images) : db.product_images[i].product_id \in ids
     /\ \A i \in 1..Len(db.product_variants) : db.product_variants[i].product_id \in ids
     /\ \A i \in 1..Len(db.product_attribute_values) :
          db.product_attribute_values[i].product_id \in ids
     /\ \A i \in 1..Len(db.inventory) : db.inventory[i].variant_id \in variant_ids

\* C3: in every committed state reachable through BulkUploader runs, runs
\* that fail partway through a product's writes included, each product is
\* whole: its product row and its child rows (images, variants, inventory,
\* attribute values) show all the writes of one ingested row of its SKU, and
\* no child row is stored without its product.
EveryProductWhole ==
  /\ NoOrphanRows(pg)
  /\ \A i \in 1..Len(pg.products) :
       \E q \in AllPayloads :
         /\ q.sku = pg.products[i].sku
         /\ PersistedAlone(q).ok
         /\ ReflectsRow(pg, pg.products[i].id, PersistedAlone(q).db)

\* A run failed after some of the writes of a product, over a filled catalog.
RunFailedPartway ==
  \E n \in 1..Len(calls) :
    /\ calls[n].op = "bulk"
    /\ calls[n].raised = "InvalidOperation"
    /\ calls[n].row >= 2
    /\ pg.products # <<>>

\* A run of _persist on file f that no lost connection ended.
Persisting(n) ==
  /\ calls[n].op = "bulk"
  /\ ~calls[n].dry_run
  /\ calls[n].raised \notin {"OperationalError", "FileNotFoundError"}
  /\ Frames[calls[n].input].raised = "ok"

\* C6: when BulkUploader persists a file in which a row's category_slug
\* matches no category (its other rows being persistable), the run is not
\* aborted: that row is counted skipped and stores nothing, and every other
\* row is stored and counted created or updated.
UnknownCategoryRowSkipped ==
  \A n \in 1..Len(calls) :
    LET rows == Frames[calls[n].input].payloads
        unknown == {i \in 1..Len(rows) : rows[i].category_slug \notin Categories}
        others == (1..Len(rows)) \ unknown
    IN (/\ Persisting(n)
        /\ unknown # {}
        /\ \A i \in others : PersistedAlone(rows[i]).ok)
       => /\ calls[n].raised = "none"
          /\ calls[n].skipped = Cardinality(unknown)
          /\ calls[n].created + calls[n].updated = Cardinality(others)
          /\ \A i \in others : HasSku(TablesAfter(n), rows[i].sku)

\* The attribute codes of a payload that no attribute is declared for.
UnknownCodes(q) ==
  {i \in 1..Len(q.attributes) : q.attributes[i][1] \notin DOMAIN Attributes}

\* C7: when BulkUploader persists a row with a non-empty attr_<code> value
\* whose code matches no declared attribute, nothing of that row stays
\* persisted and the row is counted skipped, while the run goes on and stores
\* the remaining rows.
UnknownAttributeRowSkipped ==
  \A n \in 1..Len(calls) :
    LET rows == Frames[calls[n].input].payloads
        unknown == {i \in 1..Len(rows) : UnknownCodes(rows[i]) # {}}
        others == (1..Len(rows)) \ unknown
    IN (/\ Persisting(n)
        /\ unknown # {}
        /\ \A i \in 1..Len(rows) : rows[i].category_slug \in Categories
        /\ \A i \in others : PersistedAlone(rows[i]).ok)
       => /\ calls[n].raised = "none"
          /\ calls[n].skipped = Cardinality(unknown)
          /\ \A i \in others : HasSku(TablesAfter(n), rows[i].sku)
          /\ \A i \in unknown :
               (/\ ~HasSku(calls[n].before, rows[i].sku)
                /\ \A j \in others : rows[j].sku # rows[i].sku)
               => ~HasSku(TablesAfter(n), rows[i].sku)

\* The frame of file f as _load_file gives it.
LoadedFrame(f) ==
  load_file(BulkFiles[f])[2]

\* C8: in BulkUploader.run a row-level validation failure (an empty required
\* value, an invalid or negative number, selling_price above mrp) does not
\* interrupt the run: the failing rows are skipped and reported, and every
\* valid row of the file (persistable by itself) is stored and counted.
ValidRowsPersisted ==
  \A n \in 1..Len(calls) :
    LET frame == LoadedFrame(calls[n].input)
        errors == Frames[calls[n].input].errors
        failing == {i \in 1..Len(frame.rows) :
                      \E e \in 1..Len(errors) : errors[e].row_number = i + 1}
        valid == (1..Len(frame.rows)) \ failing
    IN (/\ Persisting(n)
        /\ errors # <<>>
        /\ \A e \in 1..Len(errors) : errors[e].kind # "missing_column"
        /\ \A i \in valid : PersistedAlone(map_row(frame.rows[i], frame.columns)).ok)
       => /\ calls[n].raised = "none"
          /\ calls[n].errors = errors
          /\ calls[n].skipped = Cardinality(failing)
          /\ calls[n].created + calls[n].updated = Cardinality(valid)
          /\ \A i \in valid :
               HasSku(TablesAfter(n), map_row(frame.rows[i], frame.columns).sku)

\* C9: BulkUploader holds a transaction per product, not per file: when a
\* run aborts while it processes its k-th row, the products of rows 1..k-1
\* stay persisted after the abort.
EarlierRowsSurviveAbort ==
  \A n \in 1..Len(calls) :
    (/\ calls[n].op = "bulk"
     /\ calls[n].raised \in {"ValueError", "TypeError", "InvalidOperation", "OperationalError"}
     /\ calls[n].row >= 2)
    => \A i \in 1..(calls[n].row - 1) :
         \E q \in {Frames[calls[n].input].payloads[i]} :
           /\ HasSku(TablesAfter(n), q.sku)
           /\ \E k \in 1..Len(TablesAfter(n).products) :
                /\ TablesAfter(n).products[k].sku = q.sku
                /\ (\A j \in (i + 1)..(calls[n].row - 1) :
                      Frames[calls[n].input].payloads[j].sku # q.sku)
                   => ReflectsRow(TablesAfter(n), TablesAfter(n).products[k].id,
                                  PersistedAlone(q).db)

\* C10: _persist processes the rows in file order: after a run the product
\* fields, images, variants and inventory stored for a SKU are those of the
\* last row of the file with that SKU, a row is counted created exactly when
\* its SKU was neither stored before the run nor carried by an earlier row,
\* and updated otherwise.
LastRowWins ==
  \A n \in 1..Len(calls) :
    (Persisting(n) /\ calls[n].raised = "none" /\ calls[n].ok) =>
      LET rows == Frames[calls[n].input].payloads
          after == TablesAfter(n)
          first == {i \in 1..Len(rows) :
                      /\ ~HasSku(calls[n].before, rows[i].sku)
                      /\ \A j \in 1..(i - 1) : rows[j].sku # rows[i].sku}
          last == {i \in 1..Len(rows) : \A j \in (i + 1)..Len(rows) : rows[j].sku # rows[i].sku}
      IN /\ Len(calls[n].is_created) = Len(rows)
         /\ \A i \in 1..Len(rows) : calls[n].is_created[i] = (i \in first)
         /\ calls[n].created = Cardinality(first)
         /\ calls[n].updated = Len(rows) - Cardinality(first)
         /\ \A i \in last :
              \E k \in 1..Len(after.products) :
                /\ after.products[k].sku = rows[i].sku
                /\ ProductRow(after, after.products[k].id) = ProductRow(PersistedAlone(rows[i]).db, 1)
                /\ ImageRows(after, after.products[k].id) = ImageRows(PersistedAlone(rows[i]).db, 1)
                /\ VariantRows(after, after.products[k].id) = VariantRows(PersistedAlone(rows[i]).db, 1)

\* A run stored a file in which a SKU new to the catalog comes twice.
SkuTwiceInOneFile ==
  \E n \in 1..Len(calls) :
    /\ calls[n].op = "bulk"
    /\ calls[n].ok
    /\ calls[n].is_created = <<TRUE, FALSE>>
    /\ calls[n].created = 1
    /\ calls[n].updated = 1
    /\ Len(pg.products) = 1

(***************************************************************************)
(* Further properties of the document store (process_bulk_upload_file).    *)
(***************************************************************************)
\* The cell a sheet row holds under a column.
SheetCell(over, column) ==
  IF column \in DOMAIN over THEN over[column] ELSE DefaultCell(column)

IsBlank(cell) ==
  \A j \in 1..Len(cell) : cell[j] = " "

\* The required attributes a sheet row has no value for; Size has a value
\* when any of the columns sizes are resolved from has one.
BlankRequired(over) ==
  {c \in {BULK_REQUIRED_ATTRIBUTES[j] : j \in 1..Len(BULK_REQUIRED_ATTRIBUTES)} :
     /\ IsBlank(SheetCell(over, c))
     /\ c = <<"S","i","z","e">> =>
          /\ IsBlank(SheetCell(over, <<"V","a","r","i","a","n","t"," ","S","i","z","e","s">>))
          /\ IsBlank(SheetCell(over, <<"L","e","n","g","t","h"," ","S","i","z","e">>))
          /\ IsBlank(SheetCell(over, <<"W","i","d","t","h"," ","S","i","z","e">>))}

\* For every upload file: whether it is a named sheet file with every
\* required column, pairwise distinct SKUs and exactly one row that lacks
\* exactly one required value, all other rows being complete; then k is that
\* row and lacks the attribute.
OneGapFile(sheet) ==
  LET rows == sheet.rows
      gaps == {i \in 1..Len(rows) : BlankRequired(rows[i]) # {}}
  IN [applies |-> /\ sheet.filename # <<>>
                  /\ Extension(sheet.filename) \in BULK_ALLOWED_EXTENSIONS
                  /\ sheet.lacks = {}
                  /\ \A i, j \in 1..Len(rows) :
                       i # j => Strip(SheetCell(rows[i], <<"S","K","U">>)) # Strip(SheetCell(rows[j], <<"S","K","U">>))
                  /\ Cardinality(gaps) = 1
                  /\ \A i \in gaps : Cardinality(BlankRequired(rows[i])) = 1,
      k |-> IF gaps = {} THEN 0 ELSE CHOOSE i \in gaps : TRUE,
      lacks |-> UNION {BlankRequired(rows[i]) : i \in gaps},
      skus |-> {Strip(SheetCell(rows[i], <<"S","K","U">>)) : i \in 1..Len(rows)},
      n |-> Len(rows)]

OneGapFiles ==
  ListOf([f \in 1..Len(UploadSheets) |-> OneGapFile(UploadSheets[f])])

\* C11: for a file of N data rows with pairwise distinct SKUs none of which is
\* stored, in which exactly one row (the k-th) lacks exactly one required
\* value A and every other row is complete, process_bulk_upload_file reports
\* created = N - 1 and skipped = 1 with exactly one error, which refers to row
\* k + 1 and names A alone.
OneGapOneError ==
  \A n \in 1..Len(calls) :
    (/\ calls[n].op = "upload"
     /\ OneGapFiles[calls[n].input].applies
     /\ \A d \in 1..Len(calls[n].before) :
          calls[n].before[d].sku_id \notin OneGapFiles[calls[n].input].skus)
    => /\ calls[n].ok
       /\ calls[n].created = OneGapFiles[calls[n].input].n - 1
       /\ calls[n].skipped = 1
       /\ Len(calls[n].errors) = 1
       /\ calls[n].errors[1].kind = "missing"
       /\ calls[n].errors[1].row = OneGapFiles[calls[n].input].k + 1
       /\ {calls[n].errors[1].names[j] : j \in 1..Len(calls[n].errors[1].names)}
            = OneGapFiles[calls[n].input].lacks
       /\ Len(calls[n].errors[1].names) = 1

\* A three-row file whose second row lacks MRP was uploaded to a store that
\* holds other SKUs.
GapInSecondOfThree ==
  \E n \in 1..Len(calls) :
    /\ calls[n].op = "upload"
    /\ OneGapFiles[calls[n].input].applies
    /\ OneGapFiles[calls[n].input].n = 3
    /\ OneGapFiles[calls[n].input].k = 2
    /\ calls[n].before # <<>>
    /\ calls[n].created = 2
    /\ calls[n].errors[1].names = <<<<"M","R","P">>>>

\* The upload files with a format error: a name that ends in neither .csv
\* nor .xlsx (in any case), or an .xlsx file that is no zip archive or holds
\* a malformed XML part.
FormatErrorUploads ==
  {f \in 1..Len(UploadSheets) :
     \/ UploadSheets[f].damage \in {"zip", "shared", "sheet"}
     \/ UploadSheets[f].filename \in {<<"p","r","o","d","u","c","t","s",".","t","x","t">>, <<"p","r","o","d","u","c","t","s">>, <<"p","r","o","d","u","c","t","s",".","x","l","s","x">>}}

\* The same for the files given to BulkUploader.run.
FormatErrorBulkFiles ==
  {f \in 1..Len(BulkFiles) :
     /\ BulkFiles[f].exists
     /\ \/ BulkFiles[f].damaged
        \/ BulkFiles[f].path = <<"u","p","l","o","a","d","s","/","p","r","o","d","u","c","t","s",".","t","x","t">>}

\* C12: a file with an unsupported extension, or with an unreadable archive
\* or XML body, makes the call stop before any row is processed (no row is
\* counted or reported, the call fails), and the store is the same before and
\* after the call, in process_bulk_upload_file and in BulkUploader.run.
FormatErrorStopsBeforeRows ==
  \A n \in 1..Len(calls) :
    /\ (calls[n].op = "upload" /\ calls[n].input \in FormatErrorUploads)
       => /\ ~calls[n].ok
          /\ calls[n].created = 0
          /\ calls[n].skipped = 0
          /\ \A e \in 1..Len(calls[n].errors) :
               /\ calls[n].errors[e].row = 0
               /\ calls[n].errors[e].kind \in {"unsupported", "BadZipFile", "ParseError"}
          /\ CollectionAfter(n) = calls[n].before
    /\ (calls[n].op = "bulk" /\ calls[n].input \in FormatErrorBulkFiles)
       => /\ calls[n].raised \in {"ValueError", "BadZipFile"}
          /\ calls[n].row = 0
          /\ calls[n].created = 0
          /\ calls[n].updated = 0
          /\ calls[n].skipped = 0
          /\ TablesAfter(n) = calls[n].before

\* A damaged workbook was given to a filled store.
DamagedWorkbookGiven ==
  \E n \in 1..Len(calls) :
    \/ /\ calls[n].op = "upload"
       /\ UploadSheets[calls[n].input].damage \in {"zip", "shared", "sheet"}
       /\ calls[n].before # <<>>
       /\ products_collection # <<>>
    \/ /\ calls[n].op = "bulk"
       /\ BulkFiles[calls[n].input].damaged
       /\ calls[n].before.products # <<>>
       /\ pg.products # <<>>

(***************************************************************************)
(* Further properties of the relational store (BulkUploader).              *)
(***************************************************************************)
\* C13: BulkUploader.run with dry_run = True parses and validates the file
\* (it raises what loading raises and reports the validation errors, or
\* reports ok with every row counted created) but opens no connection and
\* writes nothing: the tables are the same after the call as before it,
\* whether the file is valid or not.
DryRunWritesNothing ==
  /\ run.pc # "idle" => ~run.dry_run
  /\ \A n \in 1..Len(calls) :
       (calls[n].op = "bulk" /\ calls[n].dry_run)
       => /\ TablesAfter(n) = calls[n].before
          /\ calls[n].raised = (IF Frames[calls[n].input].raised = "ok" THEN "none"
                                ELSE Frames[calls[n].input].raised)
          /\ calls[n].errors = Frames[calls[n].input].errors
          /\ calls[n].ok = (Frames[calls[n].input].raised = "ok"
                            /\ Frames[calls[n].input].errors = <<>>)
          /\ calls[n].ok => /\ calls[n].created = Frames[calls[n].input].rows
                            /\ calls[n].updated = 0
                            /\ calls[n].skipped = 0

\* A valid file got a dry run, then a real run that changed the catalog.
DryRunThenRun ==
  \E n \in 1..(Len(calls) - 1) :
    /\ calls[n].op = "bulk"
    /\ calls[n].dry_run
    /\ calls[n].ok
    /\ calls[n].created >= 2
    /\ calls[n + 1].op = "bulk"
    /\ calls[n + 1].input = calls[n].input
    /\ ~calls[n + 1].dry_run
    /\ calls[n + 1].ok
    /\ calls[n + 1].before # pg

(***************************************************************************)
(* process_bulk_upload_file served by several workers at once.  A request  *)
(* reads and validates its file on its own; the collection is shared, and  *)
(* each find_one and each insert_one is one step on it.                    *)
(***************************************************************************)
\* The row loop from req.row up to the next find_one, or to the end: rows with
\* missing values are skipped without a look at the collection.
RECURSIVE to_next_find_one(_, _)
to_next_find_one(req, rows) ==
  IF req.row > Len(rows) THEN [req EXCEPT !.pc = "return"]
  ELSE IF rows[req.row].missing # <<>>
  THEN to_next_find_one(
         [req EXCEPT !.skipped = @ + 1,
                     !.errors = Append(@, [row |-> req.row + 1, kind |-> "missing",
                                           names |-> rows[req.row].missing, sku |-> <<>>]),
                     !.row = @ + 1],
         rows)
  ELSE [req EXCEPT !.pc = "find_one"]

\* The request up to its first find_one, or to an early return.
received(f, parsed, collection) ==
  IF parsed.status # "ok"
  THEN [NoRequest EXCEPT !.pc = "return", !.file = f, !.ok = FALSE, !.before = collection,
                         !.errors = <<[row |-> 0, kind |-> parsed.status,
                                       names |-> parsed.missing, sku |-> <<>>]>>]
  ELSE to_next_find_one([NoRequest EXCEPT !.file = f, !.row = 1, !.before = collection],
                        parsed.rows)

\* if products_collection.find_one({'sku_id': sku}): skipped += 1; errors.append(...); continue
found_one(req, rows, found) ==
  IF found
  THEN to_next_find_one(
         [req EXCEPT !.skipped = @ + 1,
                     !.errors = Append(@, [row |-> req.row + 1, kind |-> "exists",
                                           names |-> <<>>, sku |-> rows[req.row].doc.sku_id]),
                     !.row = @ + 1],
         rows)
  ELSE [req EXCEPT !.pc = "insert_one"]

\* created += 1, and on to the next row.
inserted_one(req, rows) ==
  to_next_find_one([req EXCEPT !.created = @ + 1, !.row = @ + 1], rows)

Serving ==
  {w \in Workers : requests[w].pc # "idle"}

ReceiveUpload(w, f) ==
  /\ adapter = "document"
  /\ requests[w].pc = "idle"
  /\ Len(calls) + Cardinality(Serving) < MaxRuns
  /\ requests' = [requests EXCEPT ![w] = received(f, ReadUploads[f], products_collection)]
  /\ UNCHANGED <<adapter, products_collection, pg, tx, run, calls, sessions>>

FindOne(w) ==
  /\ requests[w].pc = "find_one"
  /\ requests' = [requests EXCEPT ![w] =
                    found_one(@, ReadUploads[@.file].rows,
                              find_one(products_collection,
                                       ReadUploads[@.file].rows[@.row].doc.sku_id))]
  /\ UNCHANGED <<adapter, products_collection, pg, tx, run, calls, sessions>>

InsertOne(w) ==
  /\ requests[w].pc = "insert_one"
  /\ products_collection' =
       insert_one(products_collection, ReadUploads[requests[w].file].rows[requests[w].row].doc)
  /\ requests' = [requests EXCEPT ![w] = inserted_one(@, ReadUploads[@.file].rows)]
  /\ UNCHANGED <<adapter, pg, tx, run, calls, sessions>>

ReturnUpload(w) ==
  /\ requests[w].pc = "return"
  /\ calls' = Append(calls, [op |-> "upload", input |-> requests[w].file,
                             ok |-> requests[w].ok, created |-> requests[w].created,
                             skipped |-> requests[w].skipped, errors |-> requests[w].errors,
                             before |-> requests[w].before])
  /\ requests' = [requests EXCEPT ![w] = NoRequest]
  /\ UNCHANGED <<adapter, products_collection, pg, tx, run, sessions>>

ConcurrentUploadNext ==
  \/ \E w \in Workers, f \in 1..Len(UploadFiles) : ReceiveUpload(w, f)
  \/ \E w \in Workers : FindOne(w)
  \/ \E w \in Workers : InsertOne(w)
  \/ \E w \in Workers : ReturnUpload(w)

ConcurrentUploadSpec ==
  Init /\ [][ConcurrentUploadNext]_vars

(***************************************************************************)
(* BulkUploader runs that share the database.  Each run holds one          *)
(* connection and, from its first statement to the end of the with-block,  *)
(* one transaction (READ COMMITTED, the server's default): a statement     *)
(* sees the committed rows and the rows its own transaction wrote.  The    *)
(* upsert of a product row locks that row, or the index entry of its SKU,  *)
(* until the transaction ends; the upsert of another transaction for the   *)
(* same SKU waits for it.  Keys come from sequences shared by all          *)
(* connections.                                                            *)
(***************************************************************************)
\* SKU A1 once more, with other images and variants.
FrameA1Sale ==
  <<<<"A","1">>, <<"C","o","u","r","t"," ","S","h","o","e"," ","S","a","l","e">>, <<"h","e","e","l","s">>, <<"1","2","0","0">>, <<"7","9","9">>, <<"z",".","j","p","g">>,
    JsonList(<<JsonDict(("variant_sku" :> <<"A","1","-","8">>) @@ ("size" :> <<"8">>) @@ ("quantity" :> JNum(2)))>>),
    <<"L","e","a","t","h","e","r">>, <<>>, <<>>>>

SessionFiles ==
  << BulkFile(<<FrameA1>>),
     BulkFile(<<FrameA1Sale>>),
     BulkFile(<<FrameA1Sale, FrameB2>>),
     BulkFile(<<FrameB2, FrameA1>>),
     BulkFile(<<FrameA1, FrameB2BadWeight>>),
     BulkFile(<<FrameB2Boots>>) >>

SessionFrames ==
  validated_frames(SessionFiles)

\* The largest of a set of keys, 0 for none.
LastKey(keys) ==
  IF keys = {} THEN 0 ELSE CHOOSE k \in keys : \A j \in keys : j <= k

\* The tables a statement of a transaction sees: the committed rows, with the
\* rows of the products the transaction has written (those of the SKUs it
\* holds) as it left them.
visible(committed, working, skus) ==
  LET own == {working.products[i].id :
                i \in {j \in 1..Len(working.products) : working.products[j].sku \in skus}}
      own_variants == {working.product_variants[i].id :
                         i \in {j \in 1..Len(working.product_variants) :
                                  working.product_variants[j].product_id \in own}}
      other_variants == {committed.product_variants[i].id :
                           i \in {j \in 1..Len(committed.product_variants) :
                                    committed.product_variants[j].product_id \notin own}}
  IN [products |->
        SelectSeq(committed.products, LAMBDA r : r.sku \notin skus) \o
        SelectSeq(working.products, LAMBDA r : r.sku \in skus),
      product_images |->
        SelectSeq(committed.product_images, LAMBDA r : r.product_id \notin own) \o
        SelectSeq(working.product_images, LAMBDA r : r.product_id \in own),
      product_variants |->
        SelectSeq(committed.product_variants, LAMBDA r : r.product_id \notin own) \o
        SelectSeq(working.product_variants, LAMBDA r : r.product_id \in own),
      inventory |->
        SelectSeq(committed.inventory, LAMBDA r : r.variant_id \in other_variants) \o
        SelectSeq(working.inventory, LAMBDA r : r.variant_id \in own_variants),
      product_attribute_values |->
        SelectSeq(committed.product_attribute_values, LAMBDA r : r.product_id \notin own) \o
        SelectSeq(working.product_attribute_values, LAMBDA r : r.product_id \in own),
      variant_seq |-> working.variant_seq]

\* The keys the sequences have handed out, to committed and uncommitted rows.
product_keys ==
  LastKey({pg.products[i].id : i \in 1..Len(pg.products)} \cup
          UNION {{sessions[t].tx.products[i].id : i \in 1..Len(sessions[t].tx.products)} :
                   t \in Sessions})

variant_keys ==
  LastKey({pg.variant_seq} \cup {sessions[t].tx.variant_seq : t \in Sessions})

\* The tables the next statement of session s sees.
session_view(s) ==
  [visible(pg, sessions[s].tx, sessions[s].locks) EXCEPT !.variant_seq = variant_keys]

\* A connection on which every statement is committed as it ends.
in_transaction_autocommit(session, committed) ==
  <<[session EXCEPT !.locks = {}], visible(committed, session.tx, session.locks)>>

\* with psycopg2.connect(self.db_url) as connection: the statements of the
\* block are one transaction, so a statement changes neither the committed
\* tables nor the locks held: <<session, committed tables>>.
in_transaction(session, committed) ==
  <<session, committed>>

\* The product row of the SKU is locked by another open transaction.
locked_by_other(s, sku) ==
  \E t \in Sessions \ {s} : sku \in sessions[t].locks

session_payload(s) ==
  sessions[s].payloads[sessions[s].row]

Connected ==
  {s \in Sessions : sessions[s].pc # "idle"}

\* Session s goes on as the record next.
SessionGoes(s, next) ==
  /\ sessions' = [sessions EXCEPT ![s] = in_transaction(next, pg)[1]]
  /\ pg' = in_transaction(next, pg)[2]
  /\ UNCHANGED calls

\* An exception leaves _persist in session s: its transaction is rolled back.
SessionRaises(s, raised) ==
  /\ pg' = rollback(pg, sessions[s].tx)
  /\ calls' = Append(calls, BulkCall(sessions[s].file, FALSE, NoReport, raised,
                                      sessions[s].row, sessions[s].is_created))
  /\ sessions' = [sessions EXCEPT ![s] = NoSession]

\* BulkUploader.run (dry_run False) on a file that passes loading and
\* validation, up to the first statement of _persist.
SessionStarts(s, f) ==
  /\ adapter = "relational"
  /\ sessions[s].pc = "idle"
  /\ Len(calls) + Cardinality(Connected) < MaxRuns
  /\ SessionFrames[f].raised = "ok" /\ SessionFrames[f].errors = <<>>
  /\ sessions' = [sessions EXCEPT ![s] =
                    [NoSession EXCEPT !.file = f, !.row = 1,
                                      !.payloads = SessionFrames[f].payloads,
                                      !.pc = IF SessionFrames[f].payloads = <<>> THEN "commit"
                                             ELSE "upsert_product"]]
  /\ UNCHANGED <<adapter, products_collection, pg, tx, run, calls, requests>>

SessionFetched(s, out, sku) ==
  IF out[2] = None
  THEN SessionRaises(s, "ValueError")
  ELSE SessionGoes(s, [sessions[s] EXCEPT !.tx = out[1],
                                           !.locks = @ \cup {sku},
                                           !.pc = "replace_images",
                                           !.product_id = out[2][1],
                                           !.is_created = Append(@, out[2][2]),
                                           !.created = IF out[2][2] THEN @ + 1 ELSE @,
                                           !.updated = IF out[2][2] THEN @ ELSE @ + 1])

\* _upsert_product in session s; the statement waits while another
\* transaction holds the row of the SKU.
SessionUpsertProduct(s) ==
  /\ sessions[s].pc = "upsert_product"
  /\ session_payload(s).category_slug \in Categories =>
       ~locked_by_other(s, session_payload(s).sku)
  /\ SessionFetched(s, upsert_product_as(session_view(s), session_payload(s), 1 + product_keys),
                    session_payload(s).sku)
  /\ UNCHANGED <<adapter, products_collection, tx, run, requests>>

SessionReplaceProductImages(s) ==
  /\ sessions[s].pc = "replace_images"
  /\ SessionGoes(s, [sessions[s] EXCEPT
                       !.tx = replace_product_images(session_view(s), sessions[s].product_id,
                                                     session_payload(s).images),
                       !.pc = "replace_variants"])
  /\ UNCHANGED <<adapter, products_collection, tx, run, requests>>

SessionExecuted(s, out, pc) ==
  IF out[2] # "none"
  THEN SessionRaises(s, out[2])
  ELSE SessionGoes(s, [sessions[s] EXCEPT !.tx = out[1], !.pc = pc,
                                           !.row = IF pc = "upsert_product" THEN @ + 1 ELSE @])

SessionReplaceVariants(s) ==
  /\ sessions[s].pc = "replace_variants"
  /\ SessionExecuted(s, replace_variants(session_view(s), sessions[s].product_id,
                                         session_payload(s).variants),
                     "upsert_attributes")
  /\ UNCHANGED <<adapter, products_collection, tx, run, requests>>

SessionUpsertAttributeValues(s) ==
  /\ sessions[s].pc = "upsert_attributes"
  /\ SessionExecuted(s, upsert_attribute_values(session_view(s), sessions[s].product_id,
                                                session_payload(s).attributes),
                     IF sessions[s].row < Len(sessions[s].payloads) THEN "upsert_product"
                     ELSE "commit")
  /\ UNCHANGED <<adapter, products_collection, tx, run, requests>>

\* The with-block of session s is left normally: its transaction commits.
SessionCommit(s) ==
  /\ sessions[s].pc = "commit"
  /\ pg' = commit(pg, session_view(s))
  /\ calls' = Append(calls, BulkCall(sessions[s].file, FALSE,
                       [NoReport EXCEPT !.ok = TRUE, !.created = sessions[s].created,
                                        !.updated = sessions[s].updated],
                       "none", 0, sessions[s].is_created))
  /\ sessions' = [sessions EXCEPT ![s] = NoSession]
  /\ UNCHANGED <<adapter, products_collection, tx, run, requests>>

\* Session s waits for a row session t holds while t waits for a row s holds:
\* the server ends the wait of s with an error (DeadlockDetected).
SessionDeadlock(s) ==
  /\ sessions[s].pc = "upsert_product"
  /\ \E t \in Sessions \ {s} :
       /\ sessions[t].pc = "upsert_product"
       /\ session_payload(s).sku \in sessions[t].locks
       /\ session_payload(t).sku \in sessions[s].locks
  /\ SessionRaises(s, "DeadlockDetected")
  /\ UNCHANGED <<adapter, products_collection, tx, run, requests>>

ConcurrentRunNext ==
  \/ \E s \in Sessions, f \in 1..Len(SessionFiles) : SessionStarts(s, f)
  \/ \E s \in Sessions : SessionUpsertProduct(s)
  \/ \E s \in Sessions : SessionReplaceProductImages(s)
  \/ \E s \in Sessions : SessionReplaceVariants(s)
  \/ \E s \in Sessions : SessionUpsertAttributeValues(s)
  \/ \E s \in Sessions : SessionCommit(s)
  \/ \E s \in Sessions : SessionDeadlock(s)

\* Every run that can take a step does take one in the end.
ConcurrentRunSpec ==
  Init /\ [][ConcurrentRunNext]_vars /\ WF_vars(ConcurrentRunNext)

(***************************************************************************)
(* Single calls of the row and cell functions of src/app.py.  A call is    *)
(* made on an input drawn from the tables below and recorded in calls with *)
(* what it returned; the stores are not involved.                          *)
(***************************************************************************)
MaxApplications ==
  1

\* Cells a sheet can hold in the columns the builder reads sizes, colour and
\* price from; a price is given with the number it stands for.
SizeCells ==
  {<<"6",",","7">>, <<"6",".","0">>, <<"6",","," ","7","/","8",";"," ","9">>, <<>>, <<" ","8"," ">>}

VariantSizeCells ==
  {<<>>, <<"7",","," ","1","0">>, <<"6",":","1","0",","," ","7",".","0","=","8">>}

ColorCells ==
  {<<"R","e","d">>, <<" ","B","l","u","e"," ">>}

PriceCells ==
  {<<<<"9","9","9">>, 999>>, <<<<"1",",","2","9","9">>, 1299>>}

ProbeInputs ==
  [size : SizeCells, variant_sizes : VariantSizeCells, color : ColorCells, price : PriceCells]

\* The row of SKU A1 with the given cells, every other column filled.
ProbeRow(input) ==
  SheetRow(UploadHeaders,
           (<<"S","K","U">> :> <<"A","1">>) @@ (<<"S","i","z","e">> :> input.size) @@
           (<<"V","a","r","i","a","n","t"," ","S","i","z","e","s">> :> input.variant_sizes) @@ (<<"C","o","l","o","r">> :> input.color) @@
           (<<"S","e","l","l","i","n","g"," ","P","r","i","c","e">> :> input.price[1]))

\* build_product_from_bulk_row(row, index_map) of every such row.
BuiltOfProbe ==
  MapOf([input \in ProbeInputs |->
           build_product_from_bulk_row(ProbeRow(input), header_index_map(UploadHeaders))])

\* extract_variant_sizes(row, index_map) of every such row.
SizesOfProbe ==
  MapOf([input \in ProbeInputs |->
           extract_variant_sizes(ProbeRow(input), header_index_map(UploadHeaders))])

\* Size tokens as split_multi_value hands them to normalize_size_value.
SizeTokens ==
  {<<"6",".","0">>, <<"6">>, <<"7",".","0","0">>, <<"1","0",".","0">>, <<"6",".","5">>, <<" ","8"," ">>, <<"6",".","0","5">>, <<"U","K"," ","6">>, <<>>}

NormalizedSizeOf ==
  MapOf([value \in SizeTokens |-> normalize_size_value(value)])

\* Image cells and tokens.
ImageValues ==
  {<<"s","h","o","e","1",".","j","p","g">>, <<"h","t","t","p","s",":","/","/","c","d","n",".","e","x","a","m","p","l","e",".","c","o","m","/","a",".","p","n","g">>, <<"/","s","t","a","t","i","c","/","i","m","a","g","e","s","/","x",".","p","n","g">>,
   <<"S","h","o","e","2",".","P","N","G">>, <<"H","T","T","P",":","/","/","C","D","N",".","E","X","A","M","P","L","E",".","C","O","M","/","B",".","G","I","F">>, <<"h","t","t","p",":","/","/","x",".","i","o","/","i","m","g","?","i","d","=","7">>,
   <<"d","a","t","a",":","i","m","a","g","e","/","p","n","g",";","b","a","s","e","6","4",",","A","A","=","=">>, <<"b","l","o","b",":","9","f","1","c">>, <<"s","t","a","t","i","c","/","a",".","g","i","f">>, <<"i","m","a","g","e","s","/","b",".","w","e","b","p">>,
   <<"/","i","m","a","g","e","s","/","c",".","j","p","g">>, <<"u","p","l","o","a","d","s","/","d",".","j","p","e","g">>, <<"n","o","t","e","s",".","t","x","t">>, <<" ","s","h","o","e","1",".","j","p","g"," ">>, <<"'","s","h","o","e","3",".","a","v","i","f","'">>,
   <<"\"">> \o <<"h","t","t","p","s",":","/","/","c","d","n",".","e","x","a","m","p","l","e",".","c","o","m","/","a",".","p","n","g">> \o <<"\"">>,
   <<"/","s","t","a","t","i","c","/","i","m","a","g","e","s">> \o <<"\\">> \o <<"y",".","p","n","g">>, <<"s","h","o","t","s">> \o <<"\\">> \o <<"e",".","w","e","b","p">>,
   <<"/","s","t","a","t","i","c","/">>, <<>>}

\* Image tokens with quotes around blanks and quotes around quotes.
QuotedImageValues ==
  {<<"\"", " ">> \o <<"a",".","j","p","g">> \o <<" ", "\"">>,
   <<"'", "\"">> \o <<"b",".","p","n","g">> \o <<"\"", "'">>,
   <<"\"", "'">> \o <<"c",".","g","i","f">> \o <<"'", "\"">>,
   <<"'", " ">> \o <<"i","m","a","g","e","s","/","d",".","w","e","b","p">> \o <<"'">>,
   <<"'", "\"">> \o <<"n","o","t","e","s">> \o <<"\"", "'">>}

StoredImageTokens ==
  ImageValues \cup QuotedImageValues

\* normalize_image_reference of a value and of its result, the image list
\* build_product_from_bulk_row stores for a one-token cell, and the list
\* collect_product_images shows for the stored product.
ShownOfStored ==
  MapOf([value \in StoredImageTokens |->
           LET stored == normalize_image_reference(Strip(value))
               image_urls == IF stored = <<>> THEN <<>> ELSE <<stored>>
           IN [once |-> normalize_image_reference(value),
               again |-> normalize_image_reference(normalize_image_reference(value)),
               stored |-> image_urls,
               shown |-> collect_product_images(
                           IF image_urls = <<>>
                           THEN <<<<"h","t","t","p","s",":","/","/","v","i","a",".","p","l","a","c","e","h","o","l","d","e","r",".","c","o","m","/","4","0","0","x","4","0","0">>>>
                           ELSE image_urls,
                           image_urls, <<>>)]])

NormalizedReferenceOf ==
  MapOf([value \in ImageValues |-> normalize_image_reference(value)])

\* Shared-string tables, and the index texts a cell of type "s" can hold,
\* each with the number it stands for.
SharedTables ==
  {<<<<"S","K","U">>, <<"A","1">>, <<"B","l","u","e">>, <<"R","e","d">>>>, <<<<"G","r","e","e","n">>>>, <<>>}

IndexTexts ==
  {<<<<"0">>, 0>>, <<<<"1">>, 1>>, <<<<"2">>, 2>>, <<<<"3">>, 3>>, <<<<"0","3">>, 3>>, <<<<"4">>, 4>>,
   <<<<"5">>, 5>>, <<<<"1","2">>, 12>>, <<<<"-","1">>, -1>>}

CellInputs ==
  [table : SharedTables, index : IndexTexts]

\* cell_value of the cell <c r="B2" t="s"><v>index</v></c>.
CellValueOf ==
  MapOf([input \in CellInputs |->
           cell_value([r |-> <<"B","2">>, t |-> "s", v |-> <<input.index[1]>>, is |-> <<>>],
                      input.table)])

Applied(op, input, output) ==
  /\ Len(calls) < MaxApplications
  /\ calls' = Append(calls, [op |-> op, input |-> input, output |-> output])
  /\ UNCHANGED <<products_collection, adapter, pg, tx, run, requests, sessions>>

BuildProduct(input) ==
  Applied("build_product_from_bulk_row", input, BuiltOfProbe[input])

ExtractVariantSizes(input) ==
  Applied("extract_variant_sizes", input, SizesOfProbe[input])

NormalizeSizeValue(value) ==
  Applied("normalize_size_value", value, NormalizedSizeOf[value])

NormalizeImageReference(value) ==
  Applied("normalize_image_reference", value, NormalizedReferenceOf[value])

CollectProductImages(value) ==
  Applied("collect_product_images", value, ShownOfStored[value])

CellValue(input) ==
  Applied("cell_value", input, CellValueOf[input])

\* Header lines in which two cells normalize to the same key, and one in
\* which none do.
HeaderLines ==
  {<<<<"S","K","U">>, <<"C","o","l","o","r">>, <<"C","O","L","O","R">>>>,
   <<<<"C","o","l","o","r"," ">>, <<"S","K","U">>, <<"c","o","l","o","r">>, <<"S","i","z","e">>>>,
   <<<<"P","r","o","d","u","c","t"," "," ","N","a","m","e">>, <<"S","K","U">>, <<"p","r","o","d","u","c","t"," ","n","a","m","e">>, <<>>, <<"P","R","O","D","U","C","T"," ","N","A","M","E">>>>,
   <<<<"S","K","U">>, <<"C","o","l","o","r">>, <<"S","i","z","e">>>>}

HeaderKeys ==
  {<<"C","o","l","o","r">>, <<"P","r","o","d","u","c","t"," ","N","a","m","e">>, <<"S","K","U">>, <<"G","S","T">>}

\* The cell of a probe row in column i.
ColumnCell(i) ==
  <<"c", DigitChars[i + 1]>>

\* {headers[i]: row_map.get(i, '') ...}: the row the reader gives for a line
\* whose cell in column i is ColumnCell(i).
ColumnRow(headers) ==
  AsRow(DictOf(ListOf([i \in 1..Len(headers) |-> <<headers[i], ColumnCell(i)>>])))

HeaderIndexMapOf ==
  MapOf([headers \in HeaderLines |-> header_index_map(headers)])

ColumnInputs ==
  [headers : HeaderLines, key : HeaderKeys]

GetFromRowOf ==
  MapOf([input \in ColumnInputs |->
           get_from_row(ColumnRow(input.headers), header_index_map(input.headers), input.key)])

HeaderIndexMap(headers) ==
  Applied("header_index_map", headers, HeaderIndexMapOf[headers])

GetFromRow(input) ==
  Applied("get_from_row", input, GetFromRowOf[input])

\* Cells of the image columns Images and Photo 2, each with the references
\* its file names stand for, in the order written.
ImagesCells ==
  {<<<<"a",".","j","p","g","|","b",".","j","p","g","|","a",".","j","p","g">>, <<<<"/","s","t","a","t","i","c","/","i","m","a","g","e","s","/","p","r","o","d","u","c","t","s","/","a",".","j","p","g">>, <<"/","s","t","a","t","i","c","/","i","m","a","g","e","s","/","p","r","o","d","u","c","t","s","/","b",".","j","p","g">>, <<"/","s","t","a","t","i","c","/","i","m","a","g","e","s","/","p","r","o","d","u","c","t","s","/","a",".","j","p","g">>>>>>,
   <<<<"1",".","j","p","g",",","2",".","j","p","g",",","3",".","j","p","g",",","4",".","j","p","g",",","5",".","j","p","g",",","6",".","j","p","g",",","7",".","j","p","g",",","8",".","j","p","g",",","9",".","j","p","g">>, <<<<"/","s","t","a","t","i","c","/","i","m","a","g","e","s","/","p","r","o","d","u","c","t","s","/","1",".","j","p","g">>, <<"/","s","t","a","t","i","c","/","i","m","a","g","e","s","/","p","r","o","d","u","c","t","s","/","2",".","j","p","g">>, <<"/","s","t","a","t","i","c","/","i","m","a","g","e","s","/","p","r","o","d","u","c","t","s","/","3",".","j","p","g">>, <<"/","s","t","a","t","i","c","/","i","m","a","g","e","s","/","p","r","o","d","u","c","t","s","/","4",".","j","p","g">>, <<"/","s","t","a","t","i","c","/","i","m","a","g","e","s","/","p","r","o","d","u","c","t","s","/","5",".","j","p","g">>, <<"/","s","t","a","t","i","c","/","i","m","a","g","e","s","/","p","r","o","d","u","c","t","s","/","6",".","j","p","g">>, <<"/","s","t","a","t","i","c","/","i","m","a","g","e","s","/","p","r","o","d","u","c","t","s","/","7",".","j","p","g">>, <<"/","s","t","a","t","i","c","/","i","m","a","g","e","s","/","p","r","o","d","u","c","t","s","/","8",".","j","p","g">>, <<"/","s","t","a","t","i","c","/","i","m","a","g","e","s","/","p","r","o","d","u","c","t","s","/","9",".","j","p","g">>>>>>,
   <<<<>>, <<>>>>,
   <<<<" ","b",".","j","p","g"," ">>, <<<<"/","s","t","a","t","i","c","/","i","m","a","g","e","s","/","p","r","o","d","u","c","t","s","/","b",".","j","p","g">>>>>>}

PhotoCells ==
  {<<<<>>, <<>>>>,
   <<<<"b",".","j","p","g",","," ","c",".","p","n","g">>, <<<<"/","s","t","a","t","i","c","/","i","m","a","g","e","s","/","p","r","o","d","u","c","t","s","/","b",".","j","p","g">>, <<"/","s","t","a","t","i","c","/","i","m","a","g","e","s","/","p","r","o","d","u","c","t","s","/","c",".","p","n","g">>>>>>,
   <<<<"\"","a",".","j","p","g","\"",";"," ","d",".","w","e","b","p">>, <<<<"/","s","t","a","t","i","c","/","i","m","a","g","e","s","/","p","r","o","d","u","c","t","s","/","a",".","j","p","g">>, <<"/","s","t","a","t","i","c","/","i","m","a","g","e","s","/","p","r","o","d","u","c","t","s","/","d",".","w","e","b","p">>>>>>}

ImageInputs ==
  [images : ImagesCells, photo : PhotoCells]

ImageHeaders ==
  UploadHeaders \o <<<<"P","h","o","t","o"," ","2">>>>

\* build_product_from_bulk_row of the row of SKU A1 with the given image cells.
BuiltOfImages ==
  MapOf([input \in ImageInputs |->
           build_product_from_bulk_row(
             SheetRow(ImageHeaders, (<<"S","K","U">> :> <<"A","1">>) @@ (<<"I","m","a","g","e","s">> :> input.images[1]) @@
                                    (<<"P","h","o","t","o"," ","2">> :> input.photo[1])),
             header_index_map(ImageHeaders))])

BuildProductImages(input) ==
  Applied("build_product_images", input, BuiltOfImages[input])

\* Cells of the Length Size and Width Size columns, each with the size it
\* stands for (none for a blank cell).
LengthCells ==
  {<<<<>>, <<>>>>, <<<<"2","4">>, <<<<"2","4">>>>>>, <<<<"6",".","0">>, <<<<"6">>>>>>}

WidthCells ==
  {<<<<>>, <<>>>>, <<<<" ","9",".","0">>, <<<<"9">>>>>>, <<<<"2","4">>, <<<<"2","4">>>>>>}

FallbackInputs ==
  [size : {<<>>, <<"6",",","7">>}, variant_sizes : {<<>>, <<"7",","," ","1","0">>}, length : LengthCells,
   width : WidthCells]

\* extract_variant_sizes of the row of SKU A1 with the given cells.
SizesOfFallback ==
  MapOf([input \in FallbackInputs |->
           extract_variant_sizes(
             SheetRow(UploadHeaders,
                      (<<"S","K","U">> :> <<"A","1">>) @@ (<<"S","i","z","e">> :> input.size) @@
                      (<<"V","a","r","i","a","n","t"," ","S","i","z","e","s">> :> input.variant_sizes) @@
                      (<<"L","e","n","g","t","h"," ","S","i","z","e">> :> input.length[1]) @@
                      (<<"W","i","d","t","h"," ","S","i","z","e">> :> input.width[1])),
             header_index_map(UploadHeaders))])

ExtractSizesOrFallback(input) ==
  Applied("extract_variant_sizes_fallback", input, SizesOfFallback[input])

\* The workbook of the one-row sheet of SKU A1: whole, without the worksheet
\* part, without the shared-string part, or without both.
PartsLeftOut ==
  {"none", "no_sheet", "no_shared", "no_parts"}

\* xlsx_rows_to_dicts of each: the exception raised ("none" for a return), the
\* headers and the rows.
ReadOfWorkbook ==
  MapOf([damage \in PartsLeftOut |->
           LET workbook == XlsxFile(Book(<<RowA1>>, damage)).workbook
           IN IF xlsx_raises(workbook) # "none"
              THEN [raised |-> xlsx_raises(workbook), headers |-> <<>>, rows |-> <<>>]
              ELSE [raised |-> "none", headers |-> xlsx_rows_to_dicts(workbook)[1],
                    rows |-> xlsx_rows_to_dicts(workbook)[2]]])

XlsxRowsToDicts(damage) ==
  Applied("xlsx_rows_to_dicts", damage, ReadOfWorkbook[damage])

FunctionNext ==
  \/ \E input \in CellInputs : CellValue(input)
  \/ \E value \in ImageValues : NormalizeImageReference(value)
  \/ \E input \in ProbeInputs : BuildProduct(input)
  \/ \E input \in ProbeInputs : ExtractVariantSizes(input)
  \/ \E value \in SizeTokens : NormalizeSizeValue(value)
  \/ \E headers \in HeaderLines : HeaderIndexMap(headers)
  \/ \E input \in ColumnInputs : GetFromRow(input)
  \/ \E input \in ImageInputs : BuildProductImages(input)
  \/ \E input \in FallbackInputs : ExtractSizesOrFallback(input)
  \/ \E damage \in PartsLeftOut : XlsxRowsToDicts(damage)
  \/ \E value \in StoredImageTokens : CollectProductImages(value)

FunctionSpec ==
  Init /\ [][FunctionNext]_vars

\* The rows of a sheet the reader keeps (a line of empty cells is dropped),
\* each as its SKU and whether it carries every required value; in a workbook
\* whose Color cells point outside the shared strings no row carries a Color.
KeptRows(sheet) ==
  LET kept == SelectSeq(sheet.rows,
                        LAMBDA over : \E h \in DOMAIN SheetRow(UploadHeaders, over) :
                                        ~IsBlank(SheetCell(over, h)))
  IN ListOf([i \in 1..Len(kept) |->
               [sku |-> Strip(SheetCell(kept[i], <<"S","K","U">>)),
                complete |-> BlankRequired(kept[i]) = {} /\ sheet.damage # "index"]])

\* For every upload file, the kept rows when the file is read to the end.
KeptRowsOfFile ==
  ListOf([f \in 1..Len(UploadSheets) |->
            IF ReadUploads[f].status = "ok" THEN KeptRows(UploadSheets[f]) ELSE <<>>])

\* The stored documents with the SKU.
DocumentsOf(collection, sku) ==
  SelectSeq(collection, LAMBDA d : d.sku_id = sku)

\* Row i of the file meets its SKU in the catalog: stored before the call, or
\* by an earlier complete row of the file.
MeetsStoredSku(rows, i, stored) ==
  /\ rows[i].complete
  /\ \/ DocumentsOf(stored, rows[i].sku) # <<>>
     \/ \E j \in 1..(i - 1) : rows[j].complete /\ rows[j].sku = rows[i].sku

\* What the call made of the rows that met a stored SKU.
StoredSkuSkipped(call, rows, after) ==
  /\ \A i \in 1..Len(rows) :
       MeetsStoredSku(rows, i, call.before) =>
         /\ \E e \in 1..Len(call.errors) :
              /\ call.errors[e].kind = "exists"
              /\ call.errors[e].row = i + 1
              /\ call.errors[e].sku = rows[i].sku
         /\ Len(DocumentsOf(after, rows[i].sku)) = 1
         /\ DocumentsOf(call.before, rows[i].sku) # <<>> =>
              DocumentsOf(after, rows[i].sku) = DocumentsOf(call.before, rows[i].sku)
         /\ DocumentsOf(call.before, rows[i].sku) = <<>> =>
              LET first == CHOOSE j \in 1..(i - 1) :
                             /\ rows[j].complete /\ rows[j].sku = rows[i].sku
                             /\ \A k \in 1..(j - 1) :
                                  ~(rows[k].complete /\ rows[k].sku = rows[i].sku)
              IN DocumentsOf(after, rows[i].sku) =
                   <<ReadUploads[call.input].rows[first].doc>>
  /\ Len(SelectSeq(call.errors, LAMBDA e : e.kind = "exists")) =
       Cardinality({i \in 1..Len(rows) : MeetsStoredSku(rows, i, call.before)})
  /\ call.skipped = Len(call.errors)

\* C20: process_bulk_upload_file skips a row whose SKU is in the catalog
\* already, stored by an earlier run or by an earlier row of the same file,
\* with an error that names the row and the SKU, and leaves the stored
\* document of that SKU exactly as it was.
ExistingSkuLeftAlone ==
  \A n \in 1..Len(calls) :
    (calls[n].op = "upload" /\ calls[n].ok) =>
      StoredSkuSkipped(calls[n], KeptRowsOfFile[calls[n].input], CollectionAfter(n))

\* A file brought other values for a SKU an earlier run stored, and a file
\* carried one SKU in two rows.
StoredSkuMetAgain ==
  /\ Len(calls) = 2
  /\ calls[1].op = "upload" /\ calls[1].created = 1 /\ calls[1].errors # <<>>
  /\ calls[1].errors[1].kind = "exists"
  /\ calls[2].op = "upload" /\ calls[2].created = 0 /\ calls[2].errors # <<>>
  /\ calls[2].errors[1].kind = "exists"
  /\ ReadUploads[calls[2].input].rows[1].doc # calls[2].before[1]

(***************************************************************************)
(* Properties of the row and cell functions.                               *)
(***************************************************************************)
\* The recorded calls of one function.
Applications(op) ==
  {calls[n] : n \in {m \in 1..Len(calls) : calls[m].op = op}}

BuiltProducts ==
  Applications("build_product_from_bulk_row")

\* C14: build_product_from_bulk_row makes of a row with k resolved sizes one
\* product with exactly k variants, one per resolved size in resolution
\* order, each carrying the row's Color and Selling Price; the row of SKU A1
\* with Size "6,7", Color Red and Selling Price 999 gives the two variants
\* (6, Red, 999) and (7, Red, 999).
OneVariantPerSize ==
  \A c \in BuiltProducts :
    LET product == c.output
        sizes == product.sizes
    IN /\ product.sku_id = <<"A","1">>
       /\ sizes # <<>> =>
            /\ "variants" \in DOMAIN product
            /\ Len(product.variants) = Len(sizes)
            /\ \A i \in 1..Len(sizes) :
                 product.variants[i] =
                   [size |-> sizes[i], color |-> Strip(c.input.color), price |-> c.input.price[2]]
       /\ (c.input.size = <<"6",",","7">> /\ c.input.variant_sizes = <<>> /\ c.input.color = <<"R","e","d">>
           /\ c.input.price[2] = 999) =>
            product.variants = <<[size |-> <<"6">>, color |-> <<"R","e","d">>, price |-> 999],
                                 [size |-> <<"7">>, color |-> <<"R","e","d">>, price |-> 999]>>

\* The row of SKU A1 with sizes 6 and 7 was built into a product.
TwoSizeRowBuilt ==
  \E c \in BuiltProducts :
    /\ c.input.size = <<"6",",","7">> /\ c.input.variant_sizes = <<>>
    /\ c.input.color = <<"R","e","d">> /\ c.input.price[2] = 999
    /\ Len(c.output.variants) = 2

\* The size tokens a cell of the probe rows holds, as the sheet's author reads
\* them.
TokensOfCell(cell) ==
  CASE cell = <<"6",",","7">> -> <<<<"6">>, <<"7">>>>
    [] cell = <<"6",".","0">> -> <<<<"6">>>>
    [] cell = <<"6",","," ","7","/","8",";"," ","9">> -> <<<<"6">>, <<"7">>, <<"8">>, <<"9">>>>
    [] cell = <<" ","8"," ">> -> <<<<"8">>>>
    [] cell = <<"7",","," ","1","0">> -> <<<<"7">>, <<"1","0">>>>
    [] cell = <<"6",":","1","0",","," ","7",".","0","=","8">> -> <<<<"6">>, <<"7">>>>
    [] cell = <<>> -> <<>>

\* The tokens of a list, each at its first occurrence.
RECURSIVE FirstOccurrences(_)
FirstOccurrences(tokens) ==
  IF tokens = <<>> THEN <<>>
  ELSE LET front == FirstOccurrences(SubSeq(tokens, 1, Len(tokens) - 1))
           last == tokens[Len(tokens)]
       IN IF \E i \in 1..Len(front) : front[i] = last THEN front ELSE Append(front, last)

\* C15: size normalisation turns the spreadsheet rendering "6.0" into "6";
\* the Size cell "6, 7/8; 9" resolves to 6, 7, 8, 9 in that order; a token
\* that occurs in several size-like columns is listed once, at its first
\* occurrence.
SizesListedOnce ==
  /\ \A c \in Applications("normalize_size_value") :
       /\ c.input = <<"6",".","0">> => c.output = <<"6">>
       /\ c.input = <<"7",".","0","0">> => c.output = <<"7">>
       /\ c.input = <<"1","0",".","0">> => c.output = <<"1","0">>
       /\ c.input \in {<<"6">>, <<"6",".","5">>, <<"6",".","0","5">>, <<"U","K"," ","6">>} => c.output = c.input
  /\ \A c \in Applications("extract_variant_sizes") :
       LET tokens == TokensOfCell(c.input.size) \o TokensOfCell(c.input.variant_sizes)
       IN /\ \A i, j \in 1..Len(c.output) : c.output[i] = c.output[j] => i = j
          /\ tokens # <<>> => c.output = FirstOccurrences(tokens)
          /\ c.input.size = <<"6",","," ","7","/","8",";"," ","9">> =>
               SubSeq(c.output, 1, 4) = <<<<"6">>, <<"7">>, <<"8">>, <<"9">>>>

\* Sizes were resolved for a row whose Size and Variant Sizes cells share a
\* token.
TokenInTwoColumns ==
  \E c \in Applications("extract_variant_sizes") :
    /\ c.input.size = <<"6",",","7">> /\ c.input.variant_sizes = <<"7",","," ","1","0">>
    /\ c.output = <<<<"6">>, <<"7">>, <<"1","0">>>>

\* The reference a cell text stands for: the text without the blanks and
\* quotes around it, every backslash written as a slash.
ReferenceGiven(value) ==
  ReplaceChar(StripChar(StripChar(Strip(value), "\""), "'"), "\\", "/")

\* A file name alone, with an image extension.
BareImageFile(ref) ==
  /\ \A i \in 1..Len(ref) : ref[i] \notin {"/", ":"}
  /\ \E e \in {<<"j","p","g">>, <<"j","p","e","g">>, <<"p","n","g">>, <<"g","i","f">>, <<"w","e","b","p">>, <<"a","v","i","f">>} :
       EndsWith(Lower(ref), <<".">> \o e)

\* C16: normalize_image_reference maps a bare file name with an image
\* extension ("shoe1.jpg") to a path of the product-image directory that ends
\* in "/" and the file name, and returns URLs ("https://cdn.example.com/a.png")
\* and paths already under "/static/" ("/static/images/x.png") unchanged.
ImageReferencesSettled ==
  \A c \in Applications("normalize_image_reference") :
    LET ref == ReferenceGiven(c.input)
    IN /\ BareImageFile(ref) => c.output = <<"/","s","t","a","t","i","c","/","i","m","a","g","e","s","/","p","r","o","d","u","c","t","s","/">> \o ref
       /\ (StartsWith(Lower(ref), <<"h","t","t","p",":","/","/">>) \/ StartsWith(Lower(ref), <<"h","t","t","p","s",":","/","/">>)) =>
            c.output = ref
       /\ StartsWith(ref, <<"/","s","t","a","t","i","c","/">>) => c.output = ref
       /\ c.input = <<"s","h","o","e","1",".","j","p","g">> => c.output = <<"/","s","t","a","t","i","c","/","i","m","a","g","e","s","/","p","r","o","d","u","c","t","s","/","s","h","o","e","1",".","j","p","g">>
       /\ c.input \in {<<"h","t","t","p","s",":","/","/","c","d","n",".","e","x","a","m","p","l","e",".","c","o","m","/","a",".","p","n","g">>, <<"/","s","t","a","t","i","c","/","i","m","a","g","e","s","/","x",".","p","n","g">>} =>
            c.output = c.input

\* The bare file name shoe1.jpg was normalised.
BareFileNameNormalised ==
  \E c \in Applications("normalize_image_reference") :
    c.input = <<"s","h","o","e","1",".","j","p","g">> /\ EndsWith(c.output, <<"/","s","h","o","e","1",".","j","p","g">>)

\* C17: the container reader resolves a shared-string cell holding index i to
\* the i-th entry of the shared-string table, counted from 0, for every i
\* inside the table (index 3 of SKU, A1, Blue, Red is "Red"); an index
\* outside the table gives the empty string and no failure.
SharedStringByIndex ==
  \A c \in Applications("cell_value") :
    LET i == c.input.index[2]
        table == c.input.table
    IN /\ (0 <= i /\ i < Len(table)) => c.output = table[i + 1]
       /\ (i < 0 \/ i >= Len(table)) => c.output = <<>>
       /\ (table = <<<<"S","K","U">>, <<"A","1">>, <<"B","l","u","e">>, <<"R","e","d">>>> /\ i = 3) => c.output = <<"R","e","d">>

\* A cell holding the last index of a four-entry table was read.
LastEntryRead ==
  \E c \in Applications("cell_value") :
    Len(c.input.table) = 4 /\ c.input.index[2] = 3 /\ c.output = <<"R","e","d">>

(***************************************************************************)
(* Properties of uploads served at once.                                   *)
(***************************************************************************)
\* C18: in every catalog state reached by process_bulk_upload_file runs, two
\* runs whose find_one and insert_one steps interleave on one SKU included, at
\* most one product document exists per sku_id.
OneDocumentPerSkuId ==
  \A i, j \in 1..Len(products_collection) :
    products_collection[i].sku_id = products_collection[j].sku_id => i = j

(***************************************************************************)
(* Properties of BulkUploader runs that share the database.                *)
(***************************************************************************)
\* The child rows (images, variants with their inventory) one pass of the
\* loop of _persist writes for a row, for every row of the files.
ChildRowsAlone ==
  LET payloads == UNION {{SessionFrames[f].payloads[i] :
                            i \in 1..Len(SessionFrames[f].payloads)} :
                           f \in 1..Len(SessionFrames)}
  IN {[sku |-> q.sku, images |-> ImageRows(PersistedAlone(q).db, 1),
       variants |-> VariantRows(PersistedAlone(q).db, 1)] :
        q \in {p \in payloads : PersistedAlone(p).ok}}

ChildRowsOf(db, i) ==
  [sku |-> db.products[i].sku, images |-> ImageRows(db, db.products[i].id),
   variants |-> VariantRows(db, db.products[i].id)]

\* Some committed product has child rows that are not the child rows of one
\* row alone.
MixedChildRows ==
  \E i \in 1..Len(pg.products) : ChildRowsOf(pg, i) \notin ChildRowsAlone

InsertedSku(item) ==
  IF item.type # "dict" THEN <<>>
  ELSE IF "variant_sku" \in DOMAIN item.fields
       THEN (IF item.fields["variant_sku"] = None THEN <<>> ELSE Strip(item.fields["variant_sku"]))
  ELSE IF "variantSku" \in DOMAIN item.fields
       THEN (IF item.fields["variantSku"] = None THEN <<>> ELSE Strip(item.fields["variantSku"]))
  ELSE <<>>

InsertedVariants(q) ==
  SelectSeq(q.variants, LAMBDA item : InsertedSku(item) # <<>>)

\* The child rows of product id in db are those derived from payload q.
ChildRowsDerivedFrom(db, id, q) ==
  LET images == SelectSeq(db.product_images, LAMBDA r : r.product_id = id)
      variants == SelectSeq(db.product_variants, LAMBDA r : r.product_id = id)
      inserted == InsertedVariants(q)
  IN /\ Len(images) = Len(q.images)
     /\ \A i \in 1..Len(images) :
          images[i].image_url = q.images[i] /\ images[i].sort_order = i - 1
     /\ Len(variants) = Len(inserted)
     /\ \A i \in 1..Len(variants) :
          /\ variants[i].variant_sku = InsertedSku(inserted[i])
          /\ Len(SelectSeq(db.inventory, LAMBDA r : r.variant_id = variants[i].id)) = 1
     /\ \A i \in 1..Len(db.inventory) :
          \E j \in 1..Len(db.product_variants) :
            db.product_variants[j].id = db.inventory[i].variant_id

\* C21: after _persist has replaced the images and the variants of a row's
\* product, the product's image rows are the row's images in cell order with
\* sort_order 0..n-1, its variant rows are the row's inserted variants with
\* one inventory row each, no child row of an earlier ingestion of the SKU
\* remains, and no inventory row references a variant that is gone.
ChildRowsReplaced ==
  run.pc = "upsert_attributes" => ChildRowsDerivedFrom(tx, run.product_id, product_payload)

\* The rows of a stored product that had other images and other variants
\* have been replaced.
StoredChildRowsReplaced ==
  /\ run.pc = "upsert_attributes"
  /\ \E i \in 1..Len(pg.products) :
       /\ pg.products[i].id = run.product_id
       /\ ImageRows(pg, run.product_id) # <<>>
       /\ ImageRows(pg, run.product_id) # ImageRows(tx, run.product_id)
       /\ VariantRows(pg, run.product_id) # <<>>
       /\ VariantRows(pg, run.product_id) # VariantRows(tx, run.product_id)

(***************************************************************************)
(* Properties of the messages of process_bulk_upload_file.                 *)
(***************************************************************************)
\* The error refers to the row at its place in the sheet, the header line
\* being row 1: the row there lacks the values named, or carries the SKU.
RefersToSheetRow(error, sheet) ==
  /\ error.row - 1 \in 1..Len(sheet.rows)
  /\ error.kind = "missing" =>
       BlankRequired(sheet.rows[error.row - 1]) = {error.names[j] : j \in 1..Len(error.names)}
  /\ error.kind = "exists" =>
       Strip(SheetCell(sheet.rows[error.row - 1], <<"S","K","U">>)) = error.sku

\* C22: the row number in a skipped-row error of process_bulk_upload_file is
\* the 1-based position of the row in the spreadsheet with the header as
\* row 1, for every file, files with entirely empty rows before the failing
\* row included.
ErrorRowIsSheetPosition ==
  \A n \in 1..Len(calls) :
    (calls[n].op = "upload" /\ calls[n].ok /\ UploadSheets[calls[n].input].damage = "none") =>
      \A k \in 1..Len(calls[n].errors) :
        RefersToSheetRow(calls[n].errors[k], UploadSheets[calls[n].input])

(***************************************************************************)
(* Properties of the header index.                                        *)
(***************************************************************************)
\* The places of the non-empty headers that normalize to the key.
ColumnsOf(headers, key) ==
  {i \in 1..Len(headers) : headers[i] # <<>> /\ normalize_bulk_header(headers[i]) = key}

FirstOf(places) ==
  CHOOSE i \in places : \A j \in places : i <= j

\* C23: when two raw headers of a file normalize to the same key, the header
\* index maps the key to the text of the first-occurring header, and
\* get_from_row reads the attribute from the first-occurring column.
FirstHeaderWins ==
  /\ \A call \in Applications("header_index_map") :
       \A n \in 1..Len(call.output) :
         call.output[n][2] = call.input[FirstOf(ColumnsOf(call.input, call.output[n][1]))]
  /\ \A call \in Applications("get_from_row") :
       ColumnsOf(call.input.headers, normalize_bulk_header(call.input.key)) # {} =>
         call.output = ColumnCell(FirstOf(ColumnsOf(call.input.headers,
                                                      normalize_bulk_header(call.input.key))))

(***************************************************************************)
(* Properties of values a later row leaves blank.                          *)
(***************************************************************************)
\* The cell of an attribute in a row of a BulkUploader file, blank where the
\* file has no column for it.
AttributeCell(file, frame, code) ==
  LET at == {j \in 1..Len(file.columns) : Lower(Strip(file.columns[j])) = <<"a","t","t","r","_">> \o code}
  IN IF at = {} THEN <<>> ELSE frame[CHOOSE j \in at : TRUE]

\* The attribute codes every row of the file for the SKU leaves blank.
BlankCodes(file, sku) ==
  {code \in DOMAIN Attributes :
     \A i \in 1..Len(file.rows) :
       Strip(file.rows[i][1]) = sku => Strip(AttributeCell(file, file.rows[i], code)) = <<>>}

\* The SKUs the files carry, and those codes for every file and SKU.
FileSkus ==
  UNION {{Strip(BulkFiles[f].rows[i][1]) : i \in 1..Len(BulkFiles[f].rows)} :
           f \in 1..Len(BulkFiles)}

BlankCodesOfFile ==
  ListOf([f \in 1..Len(BulkFiles) |-> MapOf([sku \in FileSkus |-> BlankCodes(BulkFiles[f], sku)])])

\* The attribute values stored for the product under the codes.
StoredValues(db, id, codes) ==
  {r \in AttributeRows(db, id) : r.attribute_id \in codes}

\* The documents that carry tags, as SKU and tag list.
TaggedDocuments(collection) ==
  {<<collection[d].sku_id, collection[d].tags>> :
     d \in {c \in 1..Len(collection) : "tags" \in DOMAIN collection[c]}}

\* C24: on update of an existing SKU, an empty tag list or an empty attribute
\* cell in the new row never overwrites a stored value with emptiness: the
\* tags stored with a document before a call are stored with it after the
\* call, and the attribute values stored for a product before a run under
\* the codes the file's rows for that SKU leave blank are stored after it.
BlankKeepsStoredValues ==
  \A n \in 1..Len(calls) :
    /\ calls[n].op \in {"upload", "sync"} =>
         TaggedDocuments(calls[n].before) \subseteq TaggedDocuments(CollectionAfter(n))
    /\ calls[n].op = "bulk" =>
         \A i \in 1..Len(calls[n].before.products) :
           StoredValues(calls[n].before, calls[n].before.products[i].id,
                        BlankCodesOfFile[calls[n].input][calls[n].before.products[i].sku])
             \subseteq AttributeRows(TablesAfter(n), calls[n].before.products[i].id)

\* A run updated a product from a row with a blank cell for an attribute the
\* product has a value of.
BlankCellOnUpdate ==
  \E n \in 1..Len(calls) :
    /\ calls[n].op = "bulk" /\ calls[n].raised = "none" /\ calls[n].ok
    /\ calls[n].updated >= 1
    /\ \E i \in 1..Len(calls[n].before.products) :
         /\ \E k \in 1..Len(BulkFiles[calls[n].input].rows) :
              Strip(BulkFiles[calls[n].input].rows[k][1]) = calls[n].before.products[i].sku
         /\ StoredValues(calls[n].before, calls[n].before.products[i].id,
                         BlankCodesOfFile[calls[n].input][calls[n].before.products[i].sku]) # {}
         /\ ProductRow(calls[n].before, calls[n].before.products[i].id)
              # ProductRow(TablesAfter(n), calls[n].before.products[i].id)

(***************************************************************************)
(* Properties of the attribute-value table.                                *)
(***************************************************************************)
\* The value column of a declared type.
ValueColumn(value_type) ==
  CASE value_type = "TEXT" -> "value_text"
    [] value_type = "NUMBER" -> "value_number"
    [] value_type = "BOOLEAN" -> "value_boolean"
    [] value_type = "DATE" -> "value_date"
    [] value_type = "JSON" -> "value_json"

FilledColumns(r) ==
  {c \in {"value_text", "value_number", "value_boolean", "value_date", "value_json"} :
     r[c] # None}

\* The table holds one row per (product, attribute), each with its value in
\* the column of the attribute's declared type and in no other.
OneTypedValue(rows) ==
  /\ \A i, j \in 1..Len(rows) :
       (rows[i].product_id = rows[j].product_id /\ rows[i].attribute_id = rows[j].attribute_id)
         => i = j
  /\ \A i \in 1..Len(rows) :
       /\ rows[i].attribute_id \in DOMAIN Attributes
       /\ FilledColumns(rows[i]) = {ValueColumn(Attributes[rows[i].attribute_id])}

\* C25: after any sequence of BulkUploader runs, and within a run, the
\* attribute-value table holds at most one row per (product, attribute), and
\* each row stores its value in exactly the one column matching the
\* attribute's declared type (TEXT, NUMBER, BOOLEAN, DATE, JSON), the other
\* four value columns being null.
OneTypedValuePerAttribute ==
  /\ OneTypedValue(pg.product_attribute_values)
  /\ OneTypedValue(tx.product_attribute_values)

\* A product holds a value of every type, and a run has written its
\* attributes again.
EveryTypeStoredTwice ==
  /\ {Attributes[pg.product_attribute_values[i].attribute_id] :
        i \in 1..Len(pg.product_attribute_values)}
       = {"TEXT", "NUMBER", "BOOLEAN", "DATE", "JSON"}
  /\ \E n \in 1..Len(calls) :
       /\ calls[n].op = "bulk" /\ calls[n].raised = "none" /\ calls[n].ok
       /\ calls[n].updated >= 1
       /\ calls[n].before.product_attribute_values # <<>>
       /\ calls[n].before.product_attribute_values
            # TablesAfter(n).product_attribute_values

(***************************************************************************)
(* Properties of the image list of a built product.                        *)
(***************************************************************************)
\* The image list of a document, empty where it has none.
ImagesOf(doc) ==
  IF "images" \in DOMAIN doc THEN doc.images ELSE <<>>

\* C26: for every row the ordered image-reference list of the product built
\* by build_product_from_bulk_row has at most 8 entries, holds no reference
\* twice, keeps first-seen order across the image columns, and starts with
\* the representative thumbnail image_1.
ImageListBounded ==
  \A call \in Applications("build_product_images") :
    /\ Len(ImagesOf(call.output)) <= 8
    /\ \A i, j \in 1..Len(ImagesOf(call.output)) :
         ImagesOf(call.output)[i] = ImagesOf(call.output)[j] => i = j
    /\ ImagesOf(call.output) = FirstOccurrences(call.input.images[2] \o call.input.photo[2])
    /\ ImagesOf(call.output) # <<>> => call.output.image_1 = ImagesOf(call.output)[1]

(***************************************************************************)
(* Properties of the three passes of extract_variant_sizes.                *)
(***************************************************************************)
\* C27: extract_variant_sizes consults the Length Size and Width Size columns
\* only when the primary Size column and the other size/variant-named columns
\* together yielded no size; in every case the result has no duplicate token
\* and lists the tokens in first-seen order across the three passes.
FallbackOnlyWithoutSizes ==
  \A call \in Applications("extract_variant_sizes_fallback") :
    LET found == TokensOfCell(call.input.size) \o TokensOfCell(call.input.variant_sizes)
        fallback == call.input.length[2] \o call.input.width[2]
    IN /\ \A i, j \in 1..Len(call.output) : call.output[i] = call.output[j] => i = j
       /\ found # <<>> => call.output = FirstOccurrences(found)
       /\ found = <<>> => call.output = FirstOccurrences(fallback)

\* Sizes were resolved from the Variant Sizes column alone of a row whose
\* Length Size and Width Size cells hold other values.
FallbackCellsPassedOver ==
  \E call \in Applications("extract_variant_sizes_fallback") :
    /\ call.input.length[2] = <<<<"2","4">>>> /\ call.input.width[2] = <<<<"9">>>>
    /\ call.input.size = <<>>
    /\ call.output = <<<<"7">>, <<"1","0">>>>

(***************************************************************************)
(* Properties of the workbook reader on containers that lack a part.       *)
(***************************************************************************)
\* C28: xlsx_rows_to_dicts returns empty headers and empty rows, without
\* raising, whenever the container lacks the first-worksheet part or lacks
\* the shared-string part.
MissingPartReadsEmpty ==
  \A call \in Applications("xlsx_rows_to_dicts") :
    call.input # "none" =>
      call.output.raised = "none" /\ call.output.headers = <<>> /\ call.output.rows = <<>>

(***************************************************************************)
(* Properties of the report of process_bulk_upload_file.                   *)
(***************************************************************************)
\* C29: whenever process_bulk_upload_file returns ok = True, created +
\* skipped equals the number of non-empty data rows of the file, the error
\* list holds exactly one message per skipped row, and the messages appear
\* in ascending row order.
ReportCountsEveryRow ==
  \A n \in 1..Len(calls) :
    (calls[n].op = "upload" /\ calls[n].ok) =>
      /\ calls[n].created + calls[n].skipped = Len(KeptRowsOfFile[calls[n].input])
      /\ Len(calls[n].errors) = calls[n].skipped
      /\ \A i, j \in 1..Len(calls[n].errors) :
           i < j => calls[n].errors[i].row < calls[n].errors[j].row
      /\ Len(CollectionAfter(n)) = Len(calls[n].before) + calls[n].created

\* A three-row file was uploaded of which one row was stored, one lacked a
\* value and one met a stored SKU.
ThreeRowsThreeOutcomes ==
  \E n \in 1..Len(calls) :
    /\ calls[n].op = "upload" /\ calls[n].ok
    /\ calls[n].created = 1 /\ calls[n].skipped = 2
    /\ {calls[n].errors[i].kind : i \in 1..Len(calls[n].errors)} = {"missing", "exists"}

(***************************************************************************)
(* Properties of normalize_image_reference applied to its own result.      *)
(***************************************************************************)
\* C30: normalize_image_reference is idempotent: for every input value
\* (including values with surrounding quotes, inner whitespace next to
\* quotes, backslashes, and relative prefixes) normalizing the normalized
\* value gives the normalized value again, so re-normalizing stored
\* references in collect_product_images never changes a reference that
\* extract_image_data stored.
StoredReferenceShownAsStored ==
  \A c \in Applications("collect_product_images") :
    /\ c.output.again = c.output.once
    /\ c.output.stored # <<>> => c.output.shown = c.output.stored

====
